---- MODULE Spec2Model ----
(***************************************************************************)
(* Model of yamori: the test execution engine (src/src/test.rs), the       *)
(* application state with its run history (src/src/app.rs) and the key     *)
(* dispatch of the terminal UI (src/src/main.rs).                          *)
(*                                                                         *)
(* Strings are sequences of one-character strings.  Option<T> is a         *)
(* sequence of length at most one: None is << >>, Some(x) is <<x>>.        *)
(***************************************************************************)
EXTENDS Integers, Sequences, FiniteSets, TLC

(***************************************************************************)
(* Bounds of the model                                                     *)
(***************************************************************************)
\* largest number of run_tests invocations issued from the UI in one behaviour
MaxRuns == 1
\* longest expected and actual output the comparison is applied to
MaxStrLen == 4
\* largest number of history entries the navigation is started from
MaxHistory == 3
\* largest number of pieces (markers and plain text) a template is made of
MaxPieces == 6

None == << >>
Some(x) == <<x>>
IsSome(o) == Len(o) > 0
Unwrap(o) == o[1]

(***************************************************************************)
(* String helpers (Rust str::find, str::trim, slicing)                      *)
(***************************************************************************)
Whitespace == {" ", "\n", "\t"}

\* s[from..] with a 1-based start
Slice(s, from) == SubSeq(s, from, Len(s))

\* absolute 1-based position of the first occurrence of pat in s at or after
\* position from; 0 when there is none (Rust: s[from..].find(pat))
Find(s, pat, from) ==
    LET hits == {i \in from..(Len(s) - Len(pat) + 1) :
                    SubSeq(s, i, i + Len(pat) - 1) = pat}
    IN IF hits = {} THEN 0 ELSE CHOOSE i \in hits : \A j \in hits : i <= j

Contains(s, pat) == Find(s, pat, 1) # 0

\* str::trim: strip leading and trailing whitespace of the whole string
trim(s) ==
    LET keep == {i \in 1..Len(s) : s[i] \notin Whitespace}
    IN IF keep = {} THEN << >>
       ELSE LET lo == CHOOSE i \in keep : \A j \in keep : i <= j
                hi == CHOOSE i \in keep : \A j \in keep : j <= i
            IN SubSeq(s, lo, hi)

(***************************************************************************)
(* process_template                                                        *)
(***************************************************************************)
release_template == <<"{","{","#","i","f"," ","r","e","l","e","a","s","e","}","}">>
build_release_template ==
    <<"{","{","#","i","f"," ","b","u","i","l","d",".","r","e","l","e","a","s","e","}","}">>
build_else == <<"{","{","e","l","s","e","}","}">>
release_end == <<"{","{","/","i","f","}","}">>

RECURSIVE ReleaseLoop(_, _, _, _)
\* the loop dropping what follows a start token without an end token
ReleaseLoop_drops_unmatched(template, is_release, cur, result) ==
    LET start_pos == Find(template, release_template, cur)
    IN IF start_pos = 0
       THEN IF cur <= Len(template) THEN result \o Slice(template, cur) ELSE result
       ELSE LET kept == result \o SubSeq(template, cur, start_pos - 1)
                end_pos == Find(template, release_end, start_pos)
            IN IF end_pos # 0
               THEN LET conditional_content ==
                            SubSeq(template, start_pos + Len(release_template), end_pos - 1)
                    IN ReleaseLoop(template, is_release, end_pos + Len(release_end),
                                   IF is_release THEN kept \o conditional_content ELSE kept)
               ELSE kept

\* the loop resolving the first region only and copying the rest as it is
ReleaseLoop_first_only(template, is_release, cur, result) ==
    LET start_pos == Find(template, release_template, cur)
    IN IF start_pos = 0
       THEN IF cur <= Len(template) THEN result \o Slice(template, cur) ELSE result
       ELSE LET kept == result \o SubSeq(template, cur, start_pos - 1)
                end_pos == Find(template, release_end, start_pos)
            IN IF end_pos # 0
               THEN LET conditional_content ==
                            SubSeq(template, start_pos + Len(release_template), end_pos - 1)
                    IN (IF is_release THEN kept \o conditional_content ELSE kept)
                           \o Slice(template, end_pos + Len(release_end))
               ELSE kept \o Slice(template, start_pos)

\* the while loop of the {{#if release}}...{{/if}} branch; cur is current_pos + 1
ReleaseLoop(template, is_release, cur, result) ==
    LET start_pos == Find(template, release_template, cur)
    IN IF start_pos = 0
       THEN IF cur <= Len(template) THEN result \o Slice(template, cur) ELSE result
       ELSE LET kept == result \o SubSeq(template, cur, start_pos - 1)
                end_pos == Find(template, release_end, start_pos)
            IN IF end_pos # 0
               THEN LET conditional_content ==
                            SubSeq(template, start_pos + Len(release_template), end_pos - 1)
                    IN ReleaseLoop(template, is_release, end_pos + Len(release_end),
                                   IF is_release THEN kept \o conditional_content ELSE kept)
               ELSE ReleaseLoop(template, is_release, Len(template) + 1,
                                kept \o Slice(template, start_pos))

RECURSIVE BuildReleaseLoop(_, _, _, _)
\* the while loop of the {{#if build.release}}..{{else}}..{{/if}} branch
BuildReleaseLoop(template, is_release, cur, result) ==
    LET start_pos == Find(template, build_release_template, cur)
    IN IF start_pos = 0
       THEN IF cur <= Len(template) THEN result \o Slice(template, cur) ELSE result
       ELSE LET kept == result \o SubSeq(template, cur, start_pos - 1)
                else_pos == Find(template, build_else, start_pos)
                end_pos == IF else_pos = 0 THEN 0 ELSE Find(template, release_end, else_pos)
            IN IF else_pos # 0 /\ end_pos # 0
               THEN LET if_content ==
                            SubSeq(template, start_pos + Len(build_release_template), else_pos - 1)
                        else_content ==
                            SubSeq(template, else_pos + Len(build_else), end_pos - 1)
                    IN BuildReleaseLoop(template, is_release, end_pos + Len(release_end),
                                        kept \o (IF is_release THEN if_content ELSE else_content))
               ELSE BuildReleaseLoop(template, is_release, Len(template) + 1,
                                     kept \o Slice(template, start_pos))

\* the substitution with the branches of the if/else form exchanged
process_template_swapped(template, is_release) ==
    IF Contains(template, release_template)
    THEN ReleaseLoop(template, is_release, 1, << >>)
    ELSE IF Contains(template, build_release_template)
         THEN BuildReleaseLoop(template, ~is_release, 1, << >>)
         ELSE template

\* the substitution keeping the release-only content whatever the flag
process_template_always_release(template, is_release) ==
    IF Contains(template, release_template)
    THEN ReleaseLoop(template, TRUE, 1, << >>)
    ELSE IF Contains(template, build_release_template)
         THEN BuildReleaseLoop(template, TRUE, 1, << >>)
         ELSE template

\* test.rs:94-180
process_template(template, is_release) ==
    IF Contains(template, release_template)
    THEN ReleaseLoop(template, is_release, 1, << >>)
    ELSE IF Contains(template, build_release_template)
         THEN BuildReleaseLoop(template, is_release, 1, << >>)
         ELSE template

(***************************************************************************)
(* Line diff (similar::TextDiff::from_lines + iter_all_changes)            *)
(***************************************************************************)
RECURSIVE SplitLines(_)
\* the lines of s, each keeping its newline terminator
SplitLines(s) ==
    IF s = << >> THEN << >>
    ELSE LET nl == Find(s, <<"\n">>, 1)
         IN IF nl = 0 THEN <<s>>
            ELSE <<SubSeq(s, 1, nl)>> \o SplitLines(Slice(s, nl + 1))

RECURSIVE LcsLen(_, _)
LcsLen(a, b) ==
    IF a = << >> \/ b = << >> THEN 0
    ELSE IF Head(a) = Head(b) THEN 1 + LcsLen(Tail(a), Tail(b))
         ELSE LET x == LcsLen(Tail(a), b)
                  y == LcsLen(a, Tail(b))
              IN IF x >= y THEN x ELSE y

RECURSIVE DiffOps(_, _)
\* a shortest edit script from the lines a to the lines b, deletions first
DiffOps(a, b) ==
    IF a = << >> THEN [k \in 1..Len(b) |-> [tag |-> "Insert", content |-> b[k]]]
    ELSE IF b = << >> THEN [k \in 1..Len(a) |-> [tag |-> "Delete", content |-> a[k]]]
    ELSE IF Head(a) = Head(b)
         THEN <<[tag |-> "Equal", content |-> Head(a)]>> \o DiffOps(Tail(a), Tail(b))
         ELSE IF LcsLen(Tail(a), b) >= LcsLen(a, Tail(b))
              THEN <<[tag |-> "Delete", content |-> Head(a)]>> \o DiffOps(Tail(a), b)
              ELSE <<[tag |-> "Insert", content |-> Head(b)]>> \o DiffOps(a, Tail(b))

\* the changes of the edit script without the lines both outputs share
diff_lines_changes_only(expected_output, actual_output) ==
    SelectSeq(DiffOps(SplitLines(expected_output), SplitLines(actual_output)),
              LAMBDA change : change.tag # "Equal")

\* the Vec<DiffLine> built at test.rs:296-304
diff_lines(expected_output, actual_output) ==
    DiffOps(SplitLines(expected_output), SplitLines(actual_output))

(***************************************************************************)
(* Configuration values the model is run on                                *)
(***************************************************************************)
s_hi == <<"h","i">>
s_hi_nl == <<"h","i","\n">>
s_bye_nl == <<"b","y","e","\n">>
s_echo == <<"e","c","h","o">>
s_cat == <<"c","a","t">>
s_app == <<"a","p","p">>
s_make == <<"m","a","k","e">>
\* "-r" wrapped in the single-branch release marker
s_arg_release == release_template \o <<"-","r">> \o release_end
\* "make " followed by the if/else form choosing "r" or "d"
s_make_mode == s_make \o <<" ">> \o build_release_template \o <<"r">>
                 \o build_else \o <<"d">> \o release_end

\* "t/" followed by the if/else form choosing "r" or "d"
s_bin == <<"t","/">> \o build_release_template \o <<"r">>
           \o build_else \o <<"d">> \o release_end

\* what a child process may print
Outputs == {s_hi_nl, s_bye_nl}

BuildOf(release, commands) == [release |-> release, pre_build_commands |-> commands]

t_echo == [name |-> "echo", command |-> s_echo, args |-> Some(<<s_hi>>),
           input |-> None, expected_output |-> s_hi,
           timeout_secs |-> Some(1), build |-> None]
t_cat == [name |-> "cat", command |-> s_cat, args |-> None,
          input |-> Some(s_hi), expected_output |-> s_hi_nl,
          timeout_secs |-> Some(1), build |-> None]
t_app == [name |-> "app", command |-> s_app, args |-> Some(<<s_arg_release, s_hi>>),
          input |-> None, expected_output |-> s_hi,
          timeout_secs |-> Some(0), build |-> None]
t_rel == [name |-> "rel", command |-> s_app, args |-> Some(<<s_arg_release>>),
          input |-> None, expected_output |-> s_bye_nl,
          timeout_secs |-> Some(1),
          build |-> Some(BuildOf(TRUE, Some(<<s_make_mode>>)))]
t_dbg == [name |-> "dbg", command |-> s_bin, args |-> Some(<<s_arg_release>>),
          input |-> None, expected_output |-> s_hi,
          timeout_secs |-> Some(1),
          build |-> Some(BuildOf(FALSE, None))]
\* a test case relying on the default timeout
t_slow == [name |-> "slow", command |-> s_app, args |-> None,
           input |-> None, expected_output |-> s_hi,
           timeout_secs |-> None, build |-> None]

\* what an OS pipe holds before a write to it blocks, in characters: scaled
\* down from the 65,536 bytes of a Linux pipe, so that s_big stands for a
\* text larger than the pipe
PipeCapacity == 4
s_big == <<"h","i","\n","h","i","\n">>
t_feed == [name |-> "feed", command |-> s_cat, args |-> None,
           input |-> Some(s_big), expected_output |-> s_hi_nl,
           timeout_secs |-> Some(1), build |-> None]

ConfigOf(tests, build) == [tests |-> tests, build |-> build]

\* configurations the engine is run on
RunConfigs ==
    { ConfigOf(<< >>, None),
      ConfigOf(<<t_echo>>, None),
      ConfigOf(<<t_cat, t_echo>>, Some(BuildOf(TRUE, None))),
      ConfigOf(<<t_echo, t_rel>>, Some(BuildOf(FALSE, Some(<<s_make, s_make_mode>>)))),
      ConfigOf(<<t_app, t_cat>>, Some(BuildOf(FALSE, Some(<< >>)))),
      ConfigOf(<<t_dbg>>, Some(BuildOf(TRUE, Some(<<s_make_mode>>)))),
      ConfigOf(<<t_slow>>, None),
      ConfigOf(<<t_feed>>, None) }

(***************************************************************************)
(* Pieces of run_tests shared by the step model and the summary            *)
(***************************************************************************)
\* test.rs:219
global_release_of(config) ==
    IF IsSome(config.build) THEN Unwrap(config.build).release ELSE FALSE

\* the flag of the global build section used for every test case
is_release_of_global(test, global_release) == global_release

\* test.rs:231
is_release_of(test, global_release) ==
    IF IsSome(test.build) THEN Unwrap(test.build).release ELSE global_release

\* test.rs:236-247
processed_args_of(test, is_release) ==
    IF IsSome(test.args)
    THEN [k \in 1..Len(Unwrap(test.args)) |-> process_template(Unwrap(test.args)[k], is_release)]
    ELSE << >>

\* the timeout with a default of one minute
timeout_of_default_60(test) ==
    IF IsSome(test.timeout_secs) THEN Unwrap(test.timeout_secs) ELSE 60

\* test.rs:277; the timeout in seconds
timeout_of(test) == IF IsSome(test.timeout_secs) THEN Unwrap(test.timeout_secs) ELSE 30

\* the comparison without the trimming
success_of_exact(test, actual_output) == actual_output = test.expected_output

\* test.rs:292
success_of(test, actual_output) == trim(actual_output) = trim(test.expected_output)

\* the diff computed whether or not the test succeeded
diff_of_always(test, actual_output) ==
    Some(diff_lines(test.expected_output, actual_output))

\* test.rs:295-309
diff_of(test, actual_output) ==
    IF ~success_of(test, actual_output)
    THEN Some(diff_lines(test.expected_output, actual_output))
    ELSE None

\* test.rs:312-315
build_commands_of(test) ==
    IF IsSome(test.build) THEN Unwrap(test.build).pre_build_commands ELSE None

\* the TestResult pushed at test.rs:317-328
TestResultOf(test, global_release, actual_output, execution_time) ==
    [name |-> test.name,
     success |-> success_of(test, actual_output),
     actual_output |-> actual_output,
     diff |-> diff_of(test, actual_output),
     command |-> test.command,
     args |-> processed_args_of(test, is_release_of(test, global_release)),
     input |-> test.input,
     execution_time |-> execution_time,
     is_release |-> is_release_of(test, global_release),
     build_commands |-> build_commands_of(test)]

\* Result<Vec<TestResult>>: an Err carries a message only
Ok(rs) == [ok |-> TRUE, results |-> rs, error |-> "none", test |-> "none"]
\* kind is the failure, test the name of the test case it arose in ("none" for
\* the global pre-build commands)
Err(kind, test) == [ok |-> FALSE, results |-> << >>, error |-> kind, test |-> test]

(***************************************************************************)
(* State                                                                   *)
(***************************************************************************)
VARIABLES
    app,            \* the App value of start_ui (app.rs:12-27)
    \* --- the UI loop (main.rs:117-339) --------------------------------------
    ui_running,     \* FALSE once 'q' has left the loop
    now,            \* SystemTime::now() in seconds
    runs,           \* log of the successful run_tests calls made from the UI:
                    \* what each returned, the global release flag it ran with
                    \* and the second it returned at
    calls,          \* number of run_tests calls made from the UI
    \* --- one execution of run_tests (test.rs:214-332) -----------------------
    run_config,     \* the &TestConfig argument
    pc,             \* position in run_tests
    cmd_idx,        \* index of the next build command of the current loop
    test_idx,       \* index of the test case of the current iteration
    results,        \* the results vector
    ret,            \* None while running, Some(return value) afterwards
    child,          \* "none", "running", "exited" or "killed"
    child_exit_at,  \* elapsed ticks at which the child exited
    child_output,   \* what the child wrote to stdout
    elapsed,        \* poll intervals slept since the child was spawned
    started,        \* log of the processes started by this run
    child_stdin,    \* the stdin of the child: whether a pipe was requested,
                    \* whether its write end is still open, what was written
    \* --- one call of a function that touches no other state ----------------
    fn_args,        \* the arguments of the call
    fn_result       \* None before the call, Some(return value) after it

ui_vars == <<app, ui_running, now, runs, calls>>
run_vars == <<run_config, pc, cmd_idx, test_idx, results, ret, child, child_exit_at,
              child_output, elapsed, started, child_stdin>>
fn_vars == <<fn_args, fn_result>>
vars == <<ui_vars, run_vars, fn_vars>>

(***************************************************************************)
(* run_tests, step by step                                                 *)
(***************************************************************************)
\* test.rs:390, the sleep between two polls in milliseconds
poll_interval_ms == 100
\* poll intervals per second of timeout
TicksPerSec == 1000 \div poll_interval_ms

cur_test == run_config.tests[test_idx]
timeout_ticks(test) == timeout_of(test) * TicksPerSec

\* how a command run to completion with Command::output() can end
BuildOutcomes == {"success", "failure", "not_executed"}

global_commands ==
    IF IsSome(run_config.build) /\ IsSome(Unwrap(run_config.build).pre_build_commands)
    THEN Unwrap(Unwrap(run_config.build).pre_build_commands)
    ELSE << >>

test_commands(test) ==
    IF IsSome(test.build) /\ IsSome(Unwrap(test.build).pre_build_commands)
    THEN Unwrap(Unwrap(test.build).pre_build_commands)
    ELSE << >>

\* a process the run started: what was executed and, for a command run to
\* completion with Command::output(), how it ended ("spawned" for a child
\* that is waited for later)
Process(kind, test, command, args, status) ==
    [kind |-> kind, test |-> test, command |-> command, args |-> args,
     status |-> status]

\* the stdin of a child: pipe is "not_requested" (no Stdio::piped(), test.rs:258-262),
\* "open" or "closed"; written is what the engine wrote into it
Stdin(pipe, written) == [pipe |-> pipe, written |-> written]
NoStdin == Stdin("not_requested", << >>)

Return(value) ==
    /\ ret' = Some(value)
    /\ pc' = "returned"

\* the pre-build loop going on to the next command whatever the exit status
RunPreBuildCommand_ignores_failure ==
    /\ pc = "pre_build"
    /\ cmd_idx <= Len(global_commands)
    /\ LET cmd == process_template(global_commands[cmd_idx], Unwrap(run_config.build).release)
       IN \E outcome \in BuildOutcomes :
             started' = Append(started, Process("pre_build", 0, <<"s","h">>,
                                                <<<<"-","c">>, cmd>>, outcome))
    /\ cmd_idx' = cmd_idx + 1
    /\ UNCHANGED <<ui_vars, fn_vars, child_stdin, run_config, pc, ret, test_idx, results, child,
                   child_exit_at, child_output, elapsed>>

\* run_pre_build_commands: one iteration of the loop at test.rs:186-207
RunPreBuildCommand ==
    /\ pc = "pre_build"
    /\ cmd_idx <= Len(global_commands)
    /\ LET cmd == process_template(global_commands[cmd_idx], Unwrap(run_config.build).release)
       IN \E outcome \in BuildOutcomes :
             /\ started' = Append(started, Process("pre_build", 0, <<"s","h">>,
                                                   <<<<"-","c">>, cmd>>, outcome))
             /\ IF outcome = "success"
                THEN /\ cmd_idx' = cmd_idx + 1
                     /\ UNCHANGED <<pc, ret>>
                ELSE /\ Return(Err(IF outcome = "failure" THEN "pre_build_failed"
                                     ELSE "pre_build_not_executed", "none"))
                     /\ UNCHANGED cmd_idx
    /\ UNCHANGED <<ui_vars, fn_vars, child_stdin, run_config, test_idx, results, child, child_exit_at,
                   child_output, elapsed>>

\* run_pre_build_commands returns Ok(()); test.rs:218-219
PreBuildDone ==
    /\ pc = "pre_build"
    /\ cmd_idx > Len(global_commands)
    /\ pc' = "next_test"
    /\ results' = << >>
    /\ test_idx' = 1
    /\ UNCHANGED <<ui_vars, fn_vars, child_stdin, run_config, cmd_idx, ret, child, child_exit_at,
                   child_output, elapsed, started>>

\* the head of the for loop at test.rs:221, and the return at test.rs:331
NextTest ==
    /\ pc = "next_test"
    /\ IF test_idx > Len(run_config.tests)
       THEN /\ Return(Ok(results))
            /\ UNCHANGED cmd_idx
       ELSE /\ pc' = IF IsSome(cur_test.build) THEN "test_build" ELSE "spawn"
            /\ cmd_idx' = 1
            /\ UNCHANGED ret
    /\ UNCHANGED <<ui_vars, fn_vars, child_stdin, run_config, test_idx, results, child, child_exit_at,
                   child_output, elapsed, started>>

\* a test's build commands rendered with the global release flag
RunTestBuildCommand_global_flag ==
    /\ pc = "test_build"
    /\ cmd_idx <= Len(test_commands(cur_test))
    /\ LET cmd == process_template(test_commands(cur_test)[cmd_idx],
                                   global_release_of(run_config))
       IN \E outcome \in BuildOutcomes :
             /\ started' = Append(started, Process("test_build", test_idx, <<"s","h">>,
                                                   <<<<"-","c">>, cmd>>, outcome))
             /\ IF outcome = "success"
                THEN /\ cmd_idx' = cmd_idx + 1
                     /\ UNCHANGED <<pc, ret>>
                ELSE /\ Return(Err(IF outcome = "failure" THEN "test_build_failed"
                                     ELSE "test_build_not_executed", cur_test.name))
                     /\ UNCHANGED cmd_idx
    /\ UNCHANGED <<ui_vars, fn_vars, child_stdin, run_config, test_idx, results, child, child_exit_at,
                   child_output, elapsed>>

\* run_test_build_commands: one iteration of the loop at test.rs:337-362
RunTestBuildCommand ==
    /\ pc = "test_build"
    /\ cmd_idx <= Len(test_commands(cur_test))
    /\ LET cmd == process_template(test_commands(cur_test)[cmd_idx],
                                   Unwrap(cur_test.build).release)
       IN \E outcome \in BuildOutcomes :
             /\ started' = Append(started, Process("test_build", test_idx, <<"s","h">>,
                                                   <<<<"-","c">>, cmd>>, outcome))
             /\ IF outcome = "success"
                THEN /\ cmd_idx' = cmd_idx + 1
                     /\ UNCHANGED <<pc, ret>>
                ELSE /\ Return(Err(IF outcome = "failure" THEN "test_build_failed"
                                     ELSE "test_build_not_executed", cur_test.name))
                     /\ UNCHANGED cmd_idx
    /\ UNCHANGED <<ui_vars, fn_vars, child_stdin, run_config, test_idx, results, child, child_exit_at,
                   child_output, elapsed>>

\* run_test_build_commands returns Ok(()); test.rs:228
TestBuildDone ==
    /\ pc = "test_build"
    /\ cmd_idx > Len(test_commands(cur_test))
    /\ pc' = "spawn"
    /\ UNCHANGED <<ui_vars, fn_vars, child_stdin, run_config, cmd_idx, test_idx, results, ret, child,
                   child_exit_at, child_output, elapsed, started>>

\* test.rs:231-263: resolve the arguments and spawn the child
Spawn ==
    /\ pc = "spawn"
    /\ \E spawned \in BOOLEAN :
          IF spawned
          THEN /\ child' = "running"
               /\ elapsed' = 0
               /\ started' = Append(started,
                      Process("test", test_idx, cur_test.command,
                              processed_args_of(cur_test,
                                  is_release_of(cur_test, global_release_of(run_config))),
                              "spawned"))
               /\ child_stdin' = IF IsSome(cur_test.input) THEN Stdin("open", << >>)
                                 ELSE NoStdin
               /\ child_output' = << >>
               /\ pc' = IF IsSome(cur_test.input) THEN "write_stdin" ELSE "wait_timeout"
               /\ UNCHANGED ret
          ELSE /\ Return(Err("spawn_failed", cur_test.name))
               /\ UNCHANGED <<child, elapsed, started, child_stdin, child_output>>
    /\ UNCHANGED <<ui_vars, fn_vars, run_config, cmd_idx, test_idx, results, child_exit_at>>

\* the payload written with the write end of the pipe left open
WriteStdin_keeps_open ==
    /\ pc = "write_stdin"
    /\ \E written \in BOOLEAN :
          IF written
          THEN /\ pc' = "wait_timeout"
               /\ child_stdin' = Stdin("open", Unwrap(cur_test.input))
               /\ UNCHANGED ret
          ELSE /\ Return(Err("stdin_write_failed", cur_test.name))
               /\ \E n \in 0..(Len(Unwrap(cur_test.input)) - 1) :
                     child_stdin' = Stdin("closed", SubSeq(Unwrap(cur_test.input), 1, n))
    /\ UNCHANGED <<ui_vars, fn_vars, run_config, cmd_idx, test_idx, results, child,
                   child_exit_at, child_output, elapsed, started>>

\* test.rs:266-274: write the payload, then drop (close) the pipe; a write
\* that fails has written less than the payload, and the pipe is dropped too;
\* write_all of a payload larger than the pipe stays blocked, the pipe full,
\* for as long as the child does not read
WriteStdin ==
    /\ pc = "write_stdin"
    /\ \E outcome \in {"written", "failed", "blocked"} :
          CASE outcome = "written" ->
                 /\ pc' = "wait_timeout"
                 /\ child_stdin' = Stdin("closed", Unwrap(cur_test.input))
                 /\ UNCHANGED ret
            [] outcome = "failed" ->
                 /\ Return(Err("stdin_write_failed", cur_test.name))
                 /\ \E n \in 0..(Len(Unwrap(cur_test.input)) - 1) :
                       child_stdin' = Stdin("closed", SubSeq(Unwrap(cur_test.input), 1, n))
            [] outcome = "blocked" ->
                 /\ Len(Unwrap(cur_test.input)) > PipeCapacity
                 /\ pc' = "write_blocked"
                 /\ child_stdin' = Stdin("open", SubSeq(Unwrap(cur_test.input), 1, PipeCapacity))
                 /\ UNCHANGED ret
    /\ UNCHANGED <<ui_vars, fn_vars, run_config, cmd_idx, test_idx, results, child,
                   child_exit_at, child_output, elapsed, started>>

\* the child reads from its stdin, or closes it, while write_all is blocked
\* (test.rs:268-270): the write goes on to its end, or fails
WriteStdinResumes ==
    /\ pc = "write_blocked"
    /\ \E read \in BOOLEAN :
          IF read
          THEN /\ pc' = "wait_timeout"
               /\ child_stdin' = Stdin("closed", Unwrap(cur_test.input))
               /\ UNCHANGED ret
          ELSE /\ Return(Err("stdin_write_failed", cur_test.name))
               /\ child_stdin' = Stdin("closed", child_stdin.written)
    /\ UNCHANGED <<ui_vars, fn_vars, run_config, cmd_idx, test_idx, results, child,
                   child_exit_at, child_output, elapsed, started>>

\* the child writes more than the stdout pipe holds (test.rs:255, 260): the
\* pipe is full and the child stays in its write until the pipe is read
ChildFillsStdout ==
    /\ child = "running"
    /\ child_output = << >>
    /\ pc \in {"write_stdin", "wait_timeout", "poll", "sleeping", "timed_out"}
    /\ child_output' = SubSeq(s_big, 1, PipeCapacity)
    /\ UNCHANGED <<ui_vars, fn_vars, child_stdin, run_config, pc, cmd_idx, test_idx, results,
                   ret, child, child_exit_at, elapsed, started>>

\* the child process terminates by itself, at any moment after its spawn,
\* unless it is held in a write to its full stdout pipe
ChildExit ==
    /\ child = "running"
    /\ child_output = << >>
    /\ pc \in {"write_stdin", "wait_timeout", "poll", "sleeping", "timed_out"}
    /\ child' = "exited"
    /\ child_exit_at' = elapsed
    /\ \E output \in Outputs : child_output' = output
    /\ UNCHANGED <<ui_vars, fn_vars, child_stdin, run_config, pc, cmd_idx, test_idx, results, ret,
                   elapsed, started>>

\* wait_timeout, the immediate check at test.rs:376-379
TryWaitFirst ==
    /\ pc = "wait_timeout"
    /\ pc' = IF child = "exited" THEN "collect" ELSE "poll"
    /\ UNCHANGED <<ui_vars, fn_vars, child_stdin, run_config, cmd_idx, test_idx, results, ret, child,
                   child_exit_at, child_output, elapsed, started>>

\* wait_timeout, the loop condition and the try_wait at test.rs:385-388,
\* and the Ok(None) at test.rs:396
Poll ==
    /\ pc = "poll"
    /\ pc' = IF elapsed < timeout_ticks(cur_test)
             THEN IF child = "exited" THEN "collect" ELSE "sleeping"
             ELSE "timed_out"
    /\ UNCHANGED <<ui_vars, fn_vars, child_stdin, run_config, cmd_idx, test_idx, results, ret, child,
                   child_exit_at, child_output, elapsed, started>>

\* wait_timeout, the sleep at test.rs:390 has passed
Sleep ==
    /\ pc = "sleeping"
    /\ elapsed' = elapsed + 1
    /\ pc' = "poll"
    /\ UNCHANGED <<ui_vars, fn_vars, child_stdin, run_config, cmd_idx, test_idx, results, ret, child,
                   child_exit_at, child_output, started>>

\* the engine failing the run on the first output mismatch
Collect_mismatch_fatal ==
    /\ pc = "collect"
    /\ IF success_of(cur_test, child_output)
       THEN /\ results' = Append(results,
                                 TestResultOf(cur_test, global_release_of(run_config),
                                              child_output, elapsed))
            /\ test_idx' = test_idx + 1
            /\ pc' = "next_test"
            /\ UNCHANGED ret
       ELSE /\ Return(Err("output_mismatch", cur_test.name))
            /\ UNCHANGED <<results, test_idx>>
    /\ child' = "none"
    /\ UNCHANGED <<ui_vars, fn_vars, child_stdin, run_config, cmd_idx, child_exit_at, child_output,
                   elapsed, started>>

\* test.rs:284-285 and 291-328: collect the output, compare, push the result
Collect ==
    /\ pc = "collect"
    /\ results' = Append(results,
                         TestResultOf(cur_test, global_release_of(run_config),
                                      child_output, elapsed))
    /\ child' = "none"
    /\ test_idx' = test_idx + 1
    /\ pc' = "next_test"
    /\ UNCHANGED <<ui_vars, fn_vars, child_stdin, run_config, cmd_idx, ret, child_exit_at, child_output,
                   elapsed, started>>

\* the timeout error handing back the results gathered so far
KillOnTimeout_partial_results ==
    /\ pc = "timed_out"
    /\ child' = IF child = "running" THEN "killed" ELSE child
    /\ Return([Err("timed_out", cur_test.name) EXCEPT !.results = results])
    /\ UNCHANGED <<ui_vars, fn_vars, child_stdin, run_config, cmd_idx, test_idx, results, child_exit_at,
                   child_output, elapsed, started>>

\* the timeout error returned without killing the child
KillOnTimeout_without_kill ==
    /\ pc = "timed_out"
    /\ Return(Err("timed_out", cur_test.name))
    /\ UNCHANGED <<ui_vars, fn_vars, child_stdin, run_config, cmd_idx, test_idx, results, child, child_exit_at,
                   child_output, elapsed, started>>

\* a timeout skipping the test case: no kill, and on to the next one
KillOnTimeout_continues ==
    /\ pc = "timed_out"
    /\ pc' = "next_test"
    /\ test_idx' = test_idx + 1
    /\ UNCHANGED <<ui_vars, fn_vars, child_stdin, run_config, cmd_idx, results, ret, child,
                   child_exit_at, child_output, elapsed, started>>

\* test.rs:287-288: kill the child and fail the run
KillOnTimeout ==
    /\ pc = "timed_out"
    /\ child' = IF child = "running" THEN "killed" ELSE child
    /\ Return(Err("timed_out", cur_test.name))
    /\ UNCHANGED <<ui_vars, fn_vars, child_stdin, run_config, cmd_idx, test_idx, results, child_exit_at,
                   child_output, elapsed, started>>

(***************************************************************************)
(* run_tests as one call: its return value as a function of the            *)
(* configuration and of what the processes it starts do                    *)
(***************************************************************************)
\* how the global pre-build phase can end for this configuration
PreOutcomes(cfg) ==
    IF IsSome(cfg.build) /\ IsSome(Unwrap(cfg.build).pre_build_commands)
       /\ Len(Unwrap(Unwrap(cfg.build).pre_build_commands)) > 0
    THEN {"success", "pre_build_failed", "pre_build_not_executed"}
    ELSE {"success"}

Outcome(kind, output) == [kind |-> kind, output |-> output, time |-> 0]

\* how the iteration of one test case can end
TestOutcomes(test) ==
    {Outcome("exit", o) : o \in Outputs}
    \cup {Outcome("spawn_failed", << >>), Outcome("timed_out", << >>)}
    \cup (IF IsSome(test.input) THEN {Outcome("stdin_write_failed", << >>)} ELSE {})
    \cup (IF Len(test_commands(test)) > 0
          THEN {Outcome("test_build_failed", << >>), Outcome("test_build_not_executed", << >>)}
          ELSE {})

AllOutcomes == UNION {TestOutcomes(t) : t \in {t_echo, t_cat, t_app, t_rel}}

RunEnvs(cfg) ==
    {e \in [pre : PreOutcomes(cfg), tests : [1..Len(cfg.tests) -> AllOutcomes]] :
        \A k \in 1..Len(cfg.tests) : e.tests[k] \in TestOutcomes(cfg.tests[k])}

RECURSIVE run_tests_loop(_, _, _, _)
\* the for loop at test.rs:221-329 and the return at test.rs:331
run_tests_loop(cfg, env, k, acc) ==
    IF k > Len(cfg.tests) THEN Ok(acc)
    ELSE IF env.tests[k].kind = "exit"
         THEN run_tests_loop(cfg, env, k + 1,
                  Append(acc, TestResultOf(cfg.tests[k], global_release_of(cfg),
                                           env.tests[k].output, env.tests[k].time)))
         ELSE Err(env.tests[k].kind, cfg.tests[k].name)

run_tests(cfg, env) ==
    IF env.pre # "success" THEN Err(env.pre, "none")
    ELSE run_tests_loop(cfg, env, 1, << >>)

(***************************************************************************)
(* App (app.rs)                                                            *)
(***************************************************************************)
TestHistory(timestamp, rs, release) ==
    [timestamp |-> timestamp, test_results |-> rs, release_mode |-> release]

NoMessage == [text |-> "", passed |-> 0, total |-> 0, detail |-> ""]
Message(text, passed, total, detail) ==
    [text |-> text, passed |-> passed, total |-> total, detail |-> detail]

\* App::new seeding the history with the configured release flag
new_seed_with_config_flag(rs, cfg, t) ==
    [test_results |-> rs,
     config |-> cfg,
     selected_test |-> 0,
     tab_index |-> 0,
     show_help |-> FALSE,
     release_mode |-> FALSE,
     history |-> <<TestHistory(t, rs, global_release_of(cfg))>>,
     selected_history |-> 0,
     viewing_history |-> FALSE,
     show_popup |-> FALSE,
     popup_type |-> "None",
     result_popup_visible |-> FALSE,
     result_popup_time |-> None,
     result_popup_message |-> NoMessage]

\* App::new
new(rs, cfg, t) ==
    [test_results |-> rs,
     config |-> cfg,
     selected_test |-> 0,
     tab_index |-> 0,
     show_help |-> FALSE,
     release_mode |-> FALSE,
     history |-> <<TestHistory(t, rs, FALSE)>>,
     selected_history |-> 0,
     viewing_history |-> FALSE,
     show_popup |-> FALSE,
     popup_type |-> "None",
     result_popup_visible |-> FALSE,
     result_popup_time |-> None,
     result_popup_message |-> NoMessage]

\* next without the wrap-around at the last test
next_unbounded(a) ==
    IF a.test_results # << >>
    THEN [a EXCEPT !.selected_test = a.selected_test + 1]
    ELSE a

next(a) ==
    IF a.test_results # << >>
    THEN [a EXCEPT !.selected_test = (a.selected_test + 1) % Len(a.test_results)]
    ELSE a

previous(a) ==
    IF a.test_results # << >>
    THEN [a EXCEPT !.selected_test = IF a.selected_test > 0 THEN a.selected_test - 1
                                     ELSE Len(a.test_results) - 1]
    ELSE a

next_tab(a) == [a EXCEPT !.tab_index = (a.tab_index + 1) % 5]

previous_tab(a) == [a EXCEPT !.tab_index = IF a.tab_index > 0 THEN a.tab_index - 1 ELSE 4]

toggle_help(a) == [a EXCEPT !.show_help = ~a.show_help]

toggle_release_mode(a) ==
    LET flag == ~a.release_mode
    IN [a EXCEPT !.release_mode = flag,
                 !.config = IF IsSome(a.config.build)
                            THEN [a.config EXCEPT !.build = Some([Unwrap(a.config.build)
                                                                   EXCEPT !.release = flag])]
                            ELSE a.config]

\* (passed, total) of get_stats; the pass rate is their quotient
get_stats(a) ==
    <<Cardinality({k \in 1..Len(a.test_results) : a.test_results[k].success}),
      Len(a.test_results)>>

\* add_to_history storing the entry over the last one instead of pushing it
add_to_history_overwrites(a, t) ==
    [a EXCEPT !.history = [a.history EXCEPT ![Len(a.history)] =
                              TestHistory(t, a.test_results, a.release_mode)],
              !.selected_history = Len(a.history) - 1]

add_to_history(a, t) ==
    LET pushed == Append(a.history, TestHistory(t, a.test_results, a.release_mode))
    IN [a EXCEPT !.history = pushed, !.selected_history = Len(pushed) - 1]

toggle_history_view(a) ==
    [a EXCEPT !.tab_index = 4, !.selected_history = Len(a.history) - 1]

\* the body shared by next_history and previous_history (app.rs:161-165, 177-181)
\* the selected entry shown without taking over its release flag
show_selected_results_only(a) ==
    IF a.selected_history + 1 <= Len(a.history)
    THEN [a EXCEPT !.test_results = a.history[a.selected_history + 1].test_results]
    ELSE a

show_selected(a) ==
    IF a.selected_history + 1 <= Len(a.history)
    THEN [a EXCEPT !.test_results = a.history[a.selected_history + 1].test_results,
                   !.release_mode = a.history[a.selected_history + 1].release_mode]
    ELSE a

next_history(a) ==
    IF a.history # << >>
    THEN show_selected([a EXCEPT !.selected_history = (a.selected_history + 1) % Len(a.history)])
    ELSE a

\* previous_history stopping at the first entry
previous_history_saturating(a) ==
    IF a.history # << >>
    THEN show_selected([a EXCEPT !.selected_history =
                            IF a.selected_history > 0 THEN a.selected_history - 1
                            ELSE 0])
    ELSE a

previous_history(a) ==
    IF a.history # << >>
    THEN show_selected([a EXCEPT !.selected_history =
                            IF a.selected_history > 0 THEN a.selected_history - 1
                            ELSE Len(a.history) - 1])
    ELSE a

reset_ui_state(a) ==
    [a EXCEPT !.selected_test = IF a.test_results # << >> /\ a.selected_test >= Len(a.test_results)
                                THEN 0 ELSE a.selected_test,
              !.tab_index = 0,
              !.viewing_history = FALSE]

toggle_popup(a, type) ==
    IF a.show_popup /\ a.popup_type = type
    THEN [a EXCEPT !.show_popup = FALSE, !.popup_type = "None"]
    ELSE [a EXCEPT !.show_popup = TRUE, !.popup_type = type]

close_popup(a) == [a EXCEPT !.show_popup = FALSE, !.popup_type = "None"]

show_result_popup(a, message, t) ==
    [a EXCEPT !.result_popup_visible = TRUE,
              !.result_popup_time = Some("instant"),
              !.result_popup_message = message,
              !.popup_type = "ResultNotification"]

\* update_result_popup once 3 seconds have passed since result_popup_time
update_result_popup(a) ==
    [a EXCEPT !.result_popup_visible = FALSE, !.result_popup_time = None]

(***************************************************************************)
(* The key dispatch of start_ui (main.rs:117-339)                          *)
(***************************************************************************)
\* configurations the UI is started on
UiConfigs ==
    { ConfigOf(<<t_echo>>, Some(BuildOf(FALSE, None))),
      ConfigOf(<<t_echo, t_cat>>, None),
      ConfigOf(<< >>, Some(BuildOf(TRUE, None))) }

\* seconds a run may take on the wall clock
RunSeconds == {1}

\* main.rs:245-247
set_release(a) ==
    IF IsSome(a.config.build)
    THEN [a EXCEPT !.config = [a.config EXCEPT !.build =
                                 Some([Unwrap(a.config.build) EXCEPT !.release = TRUE])]]
    ELSE a

\* the confirmation saving to the history before it looks at the outcome
after_run_saves_failed(a, r, t, text) ==
    LET saved == add_to_history(a, t)
    IN IF r.ok
       THEN LET stats == get_stats(saved)
                notified == show_result_popup(saved, Message(text, stats[1], stats[2], ""), t)
            IN reset_ui_state([notified EXCEPT !.test_results = r.results])
       ELSE show_result_popup(saved, Message("error", 0, 0, r.error), t)

\* main.rs:206-240 and 249-282: what the confirmation does with the value r
\* returned by run_tests
after_run(a, r, t, text) ==
    IF r.ok
    THEN LET saved == add_to_history(a, t)
             stats == get_stats(saved)
             notified == show_result_popup(saved, Message(text, stats[1], stats[2], ""), t)
         IN reset_ui_state([notified EXCEPT !.test_results = r.results])
    ELSE show_result_popup(a, Message("error", 0, 0, r.error), t)

\* loading an entry also putting its release flag into the configuration
load_history_restores_build(a, t) ==
    IF a.selected_history + 1 <= Len(a.history)
    THEN LET entry == a.history[a.selected_history + 1]
             cfg == IF IsSome(a.config.build)
                    THEN [a.config EXCEPT !.build =
                            Some([Unwrap(a.config.build) EXCEPT !.release = entry.release_mode])]
                    ELSE a.config
         IN show_result_popup([a EXCEPT !.test_results = entry.test_results,
                                        !.release_mode = entry.release_mode,
                                        !.config = cfg,
                                        !.tab_index = 0],
                              Message("loaded_history", a.selected_history + 1,
                                      entry.timestamp, ""), t)
    ELSE a

\* main.rs:302-320
load_history(a, t) ==
    IF a.selected_history + 1 <= Len(a.history)
    THEN LET entry == a.history[a.selected_history + 1]
         IN show_result_popup([a EXCEPT !.test_results = entry.test_results,
                                        !.release_mode = entry.release_mode,
                                        !.tab_index = 0],
                              Message("loaded_history", a.selected_history + 1,
                                      entry.timestamp, ""), t)
    ELSE a

\* Esc closing the confirmation and going back to the first test
escape_resets_selection(a) ==
    IF a.show_popup THEN [close_popup(a) EXCEPT !.selected_test = 0]
    ELSE IF a.show_help THEN toggle_help(a)
    ELSE IF a.result_popup_visible
         THEN [a EXCEPT !.result_popup_visible = FALSE, !.result_popup_time = None]
         ELSE a

\* main.rs:323-334
escape(a) ==
    IF a.show_popup THEN close_popup(a)
    ELSE IF a.show_help THEN toggle_help(a)
    ELSE IF a.result_popup_visible
         THEN [a EXCEPT !.result_popup_visible = FALSE, !.result_popup_time = None]
         ELSE a

Free(a) == ~a.show_help /\ ~a.show_popup

KeyQuit ==
    /\ ui_running
    /\ ~app.show_popup
    /\ ui_running' = FALSE
    /\ UNCHANGED <<app, now, runs, calls, run_vars, fn_vars>>

\* '?' toggling the help overlay also over a confirmation popup
KeyHelp_over_popup ==
    /\ ui_running
    /\ app' = toggle_help(app)
    /\ UNCHANGED <<ui_running, now, runs, calls, run_vars, fn_vars>>

KeyHelp ==
    /\ ui_running
    /\ app' = IF ~app.show_popup THEN toggle_help(app) ELSE app
    /\ UNCHANGED <<ui_running, now, runs, calls, run_vars, fn_vars>>

KeyDown ==
    /\ ui_running
    /\ app' = IF Free(app)
              THEN IF app.tab_index = 4 THEN next_history(app) ELSE next(app)
              ELSE app
    /\ UNCHANGED <<ui_running, now, runs, calls, run_vars, fn_vars>>

KeyUp ==
    /\ ui_running
    /\ app' = IF Free(app)
              THEN IF app.tab_index = 4 THEN previous_history(app) ELSE previous(app)
              ELSE app
    /\ UNCHANGED <<ui_running, now, runs, calls, run_vars, fn_vars>>

KeyRight ==
    /\ ui_running
    /\ app' = IF Free(app) THEN next_tab(app) ELSE app
    /\ UNCHANGED <<ui_running, now, runs, calls, run_vars, fn_vars>>

KeyLeft ==
    /\ ui_running
    /\ app' = IF Free(app) THEN previous_tab(app) ELSE app
    /\ UNCHANGED <<ui_running, now, runs, calls, run_vars, fn_vars>>

\* 'r'
KeyRunTests ==
    /\ ui_running
    /\ app' = IF Free(app) THEN toggle_popup(app, "RunTests") ELSE app
    /\ UNCHANGED <<ui_running, now, runs, calls, run_vars, fn_vars>>

\* 'b'
KeyBuildToggle ==
    /\ ui_running
    /\ app' = IF Free(app) THEN toggle_popup(app, "BuildToggle") ELSE app
    /\ UNCHANGED <<ui_running, now, runs, calls, run_vars, fn_vars>>

\* 'R'
KeyRunRelease ==
    /\ ui_running
    /\ app' = IF Free(app) THEN toggle_popup(app, "RunRelease") ELSE app
    /\ UNCHANGED <<ui_running, now, runs, calls, run_vars, fn_vars>>

\* 'H'
KeyHistory ==
    /\ ui_running
    /\ app' = IF Free(app) THEN toggle_history_view(app) ELSE app
    /\ UNCHANGED <<ui_running, now, runs, calls, run_vars, fn_vars>>

\* the run_tests call of a confirmation and what follows it
Rerun(a, text) ==
    \E env \in RunEnvs(a.config), d \in RunSeconds :
        LET r == run_tests(a.config, env)
        IN /\ app' = after_run(a, r, now + d, text)
           /\ now' = now + d
           /\ runs' = IF r.ok
                      THEN Append(runs, [results |-> r.results,
                                         release |-> global_release_of(a.config),
                                         at |-> now + d])
                      ELSE runs
           /\ calls' = calls + 1

\* Enter on the RunTests confirmation (main.rs:203-241)
EnterRunTests ==
    /\ ui_running
    /\ app.show_popup /\ app.popup_type = "RunTests"
    /\ calls < MaxRuns
    /\ Rerun(close_popup(app), "tests_completed")
    /\ UNCHANGED <<ui_running, run_vars, fn_vars>>

\* Enter on the RunRelease confirmation (main.rs:242-283)
EnterRunRelease ==
    /\ ui_running
    /\ app.show_popup /\ app.popup_type = "RunRelease"
    /\ calls < MaxRuns
    /\ Rerun(set_release(close_popup(app)), "release_tests_completed")
    /\ UNCHANGED <<ui_running, run_vars, fn_vars>>

\* Enter on the BuildToggle confirmation (main.rs:284-297)
EnterBuildToggle ==
    /\ ui_running
    /\ app.show_popup /\ app.popup_type = "BuildToggle"
    /\ LET toggled == toggle_release_mode(close_popup(app))
       IN app' = show_result_popup(toggled,
                     Message("build_mode_changed", 0, 0,
                             IF toggled.release_mode THEN "RELEASE" ELSE "DEBUG"), now)
    /\ UNCHANGED <<ui_running, now, runs, calls, run_vars, fn_vars>>

\* Enter on the history tab (main.rs:300-321)
EnterHistory ==
    /\ ui_running
    /\ ~app.show_popup /\ app.tab_index = 4
    /\ app' = load_history(app, now)
    /\ UNCHANGED <<ui_running, now, runs, calls, run_vars, fn_vars>>

KeyEsc ==
    /\ ui_running
    /\ app' = escape(app)
    /\ UNCHANGED <<ui_running, now, runs, calls, run_vars, fn_vars>>

\* main.rs:124: the notification has been up for 3 seconds
UpdateResultPopup ==
    /\ ui_running
    /\ IsSome(app.result_popup_time)
    /\ app' = update_result_popup(app)
    /\ UNCHANGED <<ui_running, now, runs, calls, run_vars, fn_vars>>

(***************************************************************************)
(* Specifications                                                          *)
(***************************************************************************)
\* main.rs:56-81: the configuration is loaded, run once (ret holds what that
\* first run returned), and the App is built from its results
Init ==
    /\ run_config \in UiConfigs
    /\ \E env \in RunEnvs(run_config) : ret = Some(run_tests(run_config, env))
    /\ Unwrap(ret).ok
    /\ results = Unwrap(ret).results
    /\ pc = "returned"
    /\ cmd_idx = 1
    /\ test_idx = Len(run_config.tests) + 1
    /\ child = "none"
    /\ child_exit_at = -1
    /\ child_output = << >>
    /\ elapsed = 0
    /\ started = << >>
    /\ child_stdin = NoStdin
    /\ app = new(results, run_config, 0)
    /\ ui_running = TRUE
    /\ now = 0
    /\ runs = << >>
    /\ calls = 0
    /\ fn_args = None
    /\ fn_result = None

Next ==
    \/ KeyQuit \/ KeyHelp \/ KeyDown \/ KeyUp \/ KeyRight \/ KeyLeft
    \/ KeyRunTests \/ KeyBuildToggle \/ KeyRunRelease \/ KeyHistory
    \/ EnterRunTests \/ EnterRunRelease \/ EnterBuildToggle \/ EnterHistory
    \/ KeyEsc \/ UpdateResultPopup

Spec == Init /\ [][Next]_vars

\* one call of run_tests on a configuration, followed step by step
InitRun ==
    /\ run_config \in RunConfigs
    /\ pc = "pre_build"
    /\ cmd_idx = 1
    /\ test_idx = 0
    /\ results = << >>
    /\ ret = None
    /\ child = "none"
    /\ child_exit_at = -1
    /\ child_output = << >>
    /\ elapsed = 0
    /\ started = << >>
    /\ child_stdin = NoStdin
    /\ app = new(<< >>, run_config, 0)
    /\ ui_running = FALSE
    /\ now = 0
    /\ runs = << >>
    /\ calls = 0
    /\ fn_args = None
    /\ fn_result = None

NextRun ==
    \/ RunPreBuildCommand \/ PreBuildDone \/ NextTest
    \/ RunTestBuildCommand \/ TestBuildDone
    \/ Spawn \/ WriteStdin \/ WriteStdinResumes \/ ChildExit \/ ChildFillsStdout
    \/ TryWaitFirst \/ Poll \/ Sleep \/ Collect \/ KillOnTimeout

SpecRun == InitRun /\ [][NextRun]_vars

\* the steps run_tests takes by itself; the others are taken by the child
EngineStep ==
    \/ RunPreBuildCommand \/ PreBuildDone \/ NextTest
    \/ RunTestBuildCommand \/ TestBuildDone
    \/ Spawn \/ WriteStdin
    \/ TryWaitFirst \/ Poll \/ Sleep \/ Collect \/ KillOnTimeout

\* one call of run_tests that goes on whenever it can: the thread is never
\* held up but by a call that blocks
SpecRunLive == SpecRun /\ WF_vars(EngineStep)

(***************************************************************************)
(* Properties of the run history (checked under Spec)                      *)
(***************************************************************************)
Last(q) == q[Len(q)]

\* C1: every successful re-run is wrapped into the history entry appended for
\* it: the entry appended by the k-th successful run holds exactly the result
\* list that run returned.
C1_EntryHoldsRunResults ==
    \A k \in 1..Len(runs) :
        /\ k + 1 <= Len(app.history)
        /\ app.history[k + 1].test_results = runs[k].results

C3_HistoryAppendOnly ==
    [][/\ Len(app'.history) >= Len(app.history)
       /\ \A k \in 1..Len(app.history) : app'.history[k] = app.history[k]]_vars

\* an entry was appended and the selection then moved back to an older entry
C3_Witness ==
    /\ Len(app.history) >= 2
    /\ app.selected_history = 0
    /\ app.test_results = app.history[1].test_results

\* C4: the history is never empty and its first entry is the seed of App::new:
\* the result set of the first run, with release flag false.
C4_SeedEntry ==
    /\ Len(app.history) >= 1
    /\ app.history[1].test_results = Unwrap(ret).results
    /\ app.history[1].release_mode = FALSE

\* a run has appended an entry and replaced the displayed results, and the
\* build mode has been toggled to release: the seed is still entry 0
C4_Witness ==
    /\ Len(app.history) >= 2
    /\ app.test_results # app.history[1].test_results
    /\ app.release_mode
    /\ app.history[1].test_results = Unwrap(ret).results

\* C5: the release flag of the entry appended by a run is the global release
\* flag that run was executed with.
C5_EntryFlagIsRunFlag ==
    \A k \in 1..Len(runs) :
        /\ k + 1 <= Len(app.history)
        /\ app.history[k + 1].release_mode = runs[k].release

(***************************************************************************)
(* Properties of one run of the engine (checked under SpecRun)             *)
(***************************************************************************)
Returned == IsSome(ret)
ret_value == Unwrap(ret)

\* the failures that end a run
FatalErrors == {"pre_build_failed", "pre_build_not_executed", "test_build_failed",
                "test_build_not_executed", "spawn_failed", "stdin_write_failed",
                "timed_out"}

\* C6: a run yields a complete ordered result sequence or no results at all:
\* Ok carries one result per configured test, result k named after test k, and
\* an error carries none of the results gathered before the failure.
C6_CompleteOrNothing ==
    Returned =>
        IF ret_value.ok
        THEN /\ Len(ret_value.results) = Len(run_config.tests)
             /\ \A k \in 1..Len(run_config.tests) :
                   ret_value.results[k].name = run_config.tests[k].name
             /\ ret_value.results = results
        ELSE /\ ret_value.results = << >>
             /\ ret_value.error \in FatalErrors

\* the run failed after the results of earlier tests had been gathered
C6_Witness ==
    /\ Returned
    /\ ~ret_value.ok
    /\ Len(results) >= 1
    /\ ret_value.results = << >>

\* C7: an output mismatch is never fatal: the test is recorded with success =
\* false, the tests after it are still run, and a run that fails does so for
\* a spawn, write, build or timeout failure of a test that has no result yet.
C7_MismatchNotFatal ==
    /\ \A k \in 1..Len(results) :
          results[k].success =
              (trim(results[k].actual_output) = trim(run_config.tests[k].expected_output))
    /\ Returned =>
          \/ ret_value.ok /\ Len(ret_value.results) = Len(run_config.tests)
          \/ /\ ~ret_value.ok
             /\ ret_value.error \in FatalErrors
             /\ \/ ret_value.error \in {"pre_build_failed", "pre_build_not_executed"}
                \/ /\ test_idx = Len(results) + 1
                   /\ ret_value.test = run_config.tests[test_idx].name

\* the first test's output did not match, the second test ran, the run is Ok
C7_Witness ==
    /\ Returned
    /\ ret_value.ok
    /\ Len(ret_value.results) = 2
    /\ ~ret_value.results[1].success

\* C8: a test whose child is still running when its timeout has elapsed gets
\* its child killed and fails the run with an error naming it; no results are
\* returned and nothing is started after that child.
C8_TimeoutAbortsRun ==
    (Returned /\ ret_value.error = "timed_out") =>
        /\ child # "running"
        /\ elapsed >= timeout_ticks(cur_test)
        /\ ~ret_value.ok
        /\ ret_value.test = cur_test.name
        /\ ret_value.results = << >>
        /\ Last(started).kind = "test"
        /\ Last(started).test = test_idx
        /\ \A k \in 1..Len(started) : started[k].test <= test_idx

\* the first of two tests timed out and its child was killed
C8_Witness ==
    /\ Returned
    /\ ret_value.error = "timed_out"
    /\ child = "killed"
    /\ test_idx < Len(run_config.tests)

\* C9: a child that exits before the timeout has elapsed is never reported as
\* timed out.
C9_ExitInTimeNotTimedOut ==
    (Returned /\ ret_value.error = "timed_out") =>
        ~(child = "exited" /\ child_exit_at < timeout_ticks(cur_test))

\* C10: for every result the engine produces, the diff is absent exactly when
\* the test succeeded.
C10_DiffAbsentIffSuccess ==
    \A k \in 1..Len(results) : (results[k].diff = None) = results[k].success

\* a run has produced a passing and a failing result
C10_Witness ==
    /\ Len(results) = 2
    /\ results[1].success /\ results[1].diff = None
    /\ ~results[2].success /\ IsSome(results[2].diff)

(***************************************************************************)
(* The comparison of test.rs:291-292 applied to arbitrary outputs          *)
(***************************************************************************)
\* the state of the engine and of the UI while a single function is looked at:
\* a run of the empty configuration that has returned, and no UI loop
NoRun ==
    /\ run_config = ConfigOf(<< >>, None)
    /\ pc = "returned"
    /\ cmd_idx = 1
    /\ test_idx = 1
    /\ results = << >>
    /\ ret = Some(Ok(<< >>))
    /\ child = "none"
    /\ child_exit_at = -1
    /\ child_output = << >>
    /\ elapsed = 0
    /\ started = << >>
    /\ child_stdin = NoStdin
    /\ app = new(<< >>, run_config, 0)
    /\ ui_running = FALSE
    /\ now = 0
    /\ runs = << >>
    /\ calls = 0

OutputChars == {"a", " ", "\n"}
OutputStrings == UNION {[1..n -> OutputChars] : n \in 0..MaxStrLen}

InitCompare ==
    /\ NoRun
    /\ fn_args \in {[expected_output |-> e, actual_output |-> a] :
                       e \in OutputStrings, a \in OutputStrings}
    /\ fn_result = None

\* test.rs:291-292 on the expected output and the captured stdout
Compare ==
    /\ fn_result = None
    /\ fn_result' = Some(success_of(fn_args, fn_args.actual_output))
    /\ UNCHANGED <<fn_args, ui_vars, run_vars>>

NextCompare == Compare

SpecCompare == InitCompare /\ [][NextCompare]_vars

IsBlank(s) == \A k \in 1..Len(s) : s[k] \in Whitespace

\* c is s without a blank prefix and a blank suffix, and c itself neither
\* starts nor ends with whitespace
IsCoreOf(c, s) ==
    \E i \in 1..(Len(s) + 1) : \E j \in (i - 1)..Len(s) :
        /\ c = SubSeq(s, i, j)
        /\ IsBlank(SubSeq(s, 1, i - 1))
        /\ IsBlank(SubSeq(s, j + 1, Len(s)))
        /\ c # << >> => (c[1] \notin Whitespace /\ c[Len(c)] \notin Whitespace)

\* the contiguous parts of s
Infixes(s) == {SubSeq(s, i, j) : i \in 1..(Len(s) + 1), j \in 0..Len(s)}

\* C11: a test succeeds exactly when the expected output and the actual
\* stdout are the same string once the leading and trailing whitespace of
\* each whole string is set aside; whitespace inside the string, also at the
\* start or end of an inner line, counts.
C11_TrimmedComparison ==
    IsSome(fn_result) =>
        (Unwrap(fn_result) <=>
            \E c \in Infixes(fn_args.expected_output) :
                /\ IsCoreOf(c, fn_args.expected_output)
                /\ IsCoreOf(c, fn_args.actual_output))

\* "a" is expected, "\n a\n" is printed, and the test succeeds
C11_Witness ==
    /\ fn_args = [expected_output |-> <<"a">>, actual_output |-> <<"\n", " ", "a", "\n">>]
    /\ fn_result = Some(TRUE)

(***************************************************************************)
(* Release flag, substitution and build commands of a run (SpecRun)        *)
(***************************************************************************)
\* the processes of the given kind started for test case k, in start order
StartedFor(kind, k) ==
    SelectSeq(started, LAMBDA p : p.kind = kind /\ p.test = k)

\* the release flag a test case is to run with: its own build override's,
\* else the global build section's, else false
EffectiveRelease(k) ==
    LET test == run_config.tests[k]
    IN IF test.build # None THEN test.build[1].release
       ELSE IF run_config.build # None THEN run_config.build[1].release
       ELSE FALSE

\* C12: the flag recorded in a TestResult, and the flag the arguments of the
\* spawned process and of the TestResult were substituted with, is the test
\* case's own build override's release flag if it has one, else the global
\* build section's if there is one, else false.
C12_EffectiveReleaseFlag ==
    /\ \A k \in 1..Len(results) :
          /\ results[k].is_release = EffectiveRelease(k)
          /\ Len(results[k].args) =
                (IF run_config.tests[k].args = None THEN 0
                 ELSE Len(run_config.tests[k].args[1]))
          /\ \A j \in 1..Len(results[k].args) :
                results[k].args[j] =
                    process_template(run_config.tests[k].args[1][j], EffectiveRelease(k))
    /\ \A n \in 1..Len(started) :
          started[n].kind = "test" =>
              \A j \in 1..Len(started[n].args) :
                  started[n].args[j] =
                      process_template(run_config.tests[started[n].test].args[1][j],
                                       EffectiveRelease(started[n].test))

\* a test case overriding a global release build with a debug build has run:
\* its result is marked debug and its release-only argument came out empty
C12_Witness ==
    /\ run_config.build # None
    /\ run_config.build[1].release
    /\ \E k \in 1..Len(results) :
          /\ run_config.tests[k].build # None
          /\ ~results[k].is_release
          /\ run_config.tests[k].args = Some(<<s_arg_release>>)
          /\ results[k].args = << << >> >>

\* C13: before a test's process is spawned, the command string and every
\* argument are resolved through template substitution with the effective
\* release flag; the executable spawned and the command recorded in the
\* TestResult are the substituted command, and the arguments spawned with
\* and recorded are the substituted arguments.
C13_CommandAndArgsSubstituted ==
    /\ \A n \in 1..Len(started) :
          started[n].kind = "test" =>
              LET k == started[n].test
              IN /\ started[n].command =
                        process_template(run_config.tests[k].command, EffectiveRelease(k))
                 /\ \A j \in 1..Len(started[n].args) :
                        started[n].args[j] =
                            process_template(run_config.tests[k].args[1][j],
                                             EffectiveRelease(k))
    /\ \A k \in 1..Len(results) :
          /\ results[k].command =
                process_template(run_config.tests[k].command, EffectiveRelease(k))
          /\ \A j \in 1..Len(results[k].args) :
                results[k].args[j] =
                    process_template(run_config.tests[k].args[1][j], EffectiveRelease(k))

\* the build commands started for test case k, as handed to sh -c
BuildCommandsRun(k) ==
    LET ran == StartedFor("test_build", k)
    IN [j \in 1..Len(ran) |-> ran[j].args[2]]

\* C14: the build commands recorded in a TestResult are the build commands
\* that were run for the test case, that is, after template substitution.
C14_BuildCommandsRecordedAsRun ==
    \A k \in 1..Len(results) :
        results[k].build_commands # None =>
            results[k].build_commands[1] = BuildCommandsRun(k)

\* the global pre-build commands started so far
PreBuildsStarted == SelectSeq(started, LAMBDA p : p.kind = "pre_build")

\* C15: the global pre-build commands are run once per run, one after the
\* other in declared order and ahead of everything else, each rendered with
\* the global release flag; a test case is only started after all of them
\* have succeeded; after one that did not exit successfully nothing more is
\* started and the run has failed.
C15_PreBuildBeforeTests ==
    LET n == Len(PreBuildsStarted)
    IN /\ n <= Len(global_commands)
       /\ \A j \in 1..Len(started) : (started[j].kind = "pre_build") <=> (j <= n)
       /\ \A j \in 1..n :
             /\ started[j].command = <<"s","h">>
             /\ started[j].args =
                   << <<"-","c">>,
                      process_template(run_config.build[1].pre_build_commands[1][j],
                                       run_config.build[1].release) >>
             /\ j < n => started[j].status = "success"
       /\ (Len(started) > n \/ Len(results) > 0 \/ child # "none" \/ test_idx > 0) =>
             /\ n = Len(global_commands)
             /\ \A j \in 1..n : started[j].status = "success"
       /\ (n > 0 /\ started[n].status # "success") =>
             /\ Len(started) = n
             /\ IsSome(ret)
             /\ ~Unwrap(ret).ok
             /\ Unwrap(ret).error \in {"pre_build_failed", "pre_build_not_executed"}

\* the second of two pre-build commands exited non-zero after the first had
\* succeeded: the run has failed without a test case
C15_Witness ==
    /\ Len(started) = 2
    /\ started[1].status = "success"
    /\ started[2].kind = "pre_build"
    /\ started[2].status = "failure"
    /\ started[2].args[2] = <<"m","a","k","e"," ","d">>
    /\ IsSome(ret)
    /\ Unwrap(ret).error = "pre_build_failed"
    /\ test_idx = 0

\* C16: the build commands of a test case are rendered with the release flag
\* of its own build override, not the global one, and run in declared order
\* once the previous test case has completed and before the test's own
\* process is spawned; after one that did not exit successfully the run has
\* failed and the test's process is never spawned.
C16_TestBuildBeforeSpawn ==
    /\ \A m \in 1..Len(started) : \A n \in (m + 1)..Len(started) :
          /\ started[m].test <= started[n].test
          /\ started[m].kind = "test" => started[m].test < started[n].test
    /\ \A n \in 1..Len(started) :
          started[n].kind \in {"test_build", "test"} =>
              /\ Len(results) >= started[n].test - 1
              /\ n < Len(started) => started[n].status \in {"success", "spawned"}
    /\ \A k \in 1..Len(run_config.tests) :
          LET ran == StartedFor("test_build", k)
              override == run_config.tests[k].build
          IN /\ Len(ran) > 0 =>
                   /\ override # None
                   /\ override[1].pre_build_commands # None
                   /\ Len(ran) <= Len(override[1].pre_build_commands[1])
                   /\ \A j \in 1..Len(ran) :
                         /\ ran[j].command = <<"s","h">>
                         /\ ran[j].args =
                               << <<"-","c">>,
                                  process_template(override[1].pre_build_commands[1][j],
                                                   override[1].release) >>
             /\ Len(StartedFor("test", k)) > 0 =>
                   /\ Len(ran) = Len(test_commands(run_config.tests[k]))
                   /\ \A j \in 1..Len(ran) : ran[j].status = "success"
    /\ (started # << >> /\ Last(started).kind = "test_build") =>
          /\ child = "none"
          /\ Last(started).status # "success" =>
                /\ IsSome(ret)
                /\ ~Unwrap(ret).ok
                /\ Unwrap(ret).error \in {"test_build_failed", "test_build_not_executed"}
                /\ Unwrap(ret).test = run_config.tests[Last(started).test].name

\* under a global debug build, the test case overriding it with a release
\* build was spawned right after its build command, rendered as "make r",
\* had succeeded
C16_Witness ==
    /\ ~global_release_of(run_config)
    /\ Len(started) >= 2
    /\ Last(started).kind = "test"
    /\ started[Len(started) - 1].kind = "test_build"
    /\ started[Len(started) - 1].test = Last(started).test
    /\ started[Len(started) - 1].status = "success"
    /\ started[Len(started) - 1].args[2] = <<"m","a","k","e"," ","r">>
    /\ Len(results) = Last(started).test - 1
    /\ Len(results) > 0

(***************************************************************************)
(* Selecting history entries (Spec)                                        *)
(***************************************************************************)
\* the steps that select a history entry: Down and Up on the history tab
\* (next_history, previous_history) and Enter on it
HistoryDown == KeyDown /\ Free(app) /\ app.tab_index = 4
HistoryUp == KeyUp /\ Free(app) /\ app.tab_index = 4
HistorySelect == HistoryDown \/ HistoryUp \/ EnterHistory

\* C17: after a history entry was selected with next_history, previous_history
\* or Enter on the history tab, the displayed results and the displayed
\* release mode are those of the entry selected_history points at.
C17_SelectionShowsEntry ==
    [][HistorySelect =>
          /\ app'.selected_history + 1 \in 1..Len(app'.history)
          /\ app'.test_results = app'.history[app'.selected_history + 1].test_results
          /\ app'.release_mode = app'.history[app'.selected_history + 1].release_mode]_vars

\* the entry of a run made in release mode is selected on the history tab and
\* shown, and it is not what that run returned
C17_Witness ==
    /\ Len(app.history) = 2
    /\ app.tab_index = 4
    /\ app.selected_history = 1
    /\ app.history[2].release_mode
    /\ app.release_mode
    /\ app.test_results = app.history[2].test_results
    /\ Len(runs) = 1
    /\ app.test_results # runs[1].results

\* C18: selecting a history entry leaves the configuration, with its build
\* release flag, and every stored history entry as they were, and no run is
\* made and no process is started.
C18_SelectionFrame ==
    [][HistorySelect =>
          /\ app'.config = app.config
          /\ app'.history = app.history
          /\ calls' = calls
          /\ runs' = runs
          /\ started' = started
          /\ child' = child]_vars

\* the seed entry was loaded with Enter after a run: the display shows debug
\* mode while the configuration still says release
C18_Witness ==
    /\ app.result_popup_visible
    /\ app.result_popup_message.text = "loaded_history"
    /\ Len(app.history) = 2
    /\ app.selected_history = 0
    /\ ~app.release_mode
    /\ global_release_of(app.config)
    /\ calls = 1

(***************************************************************************)
(* Navigation over a history of several entries                            *)
(***************************************************************************)
\* what run_tests can return with Ok for a configuration
OkRuns(cfg) == {r \in {run_tests(cfg, env) : env \in RunEnvs(cfg)} : r.ok}

RECURSIVE AfterReruns(_, _)
\* the App, with the log of its runs, after the first run and k re-runs that
\* were confirmed on the RunTests popup one second apart and returned Ok
AfterReruns(cfg, k) ==
    IF k = 0
    THEN {[app |-> new(r.results, cfg, 0), runs |-> << >>] : r \in OkRuns(cfg)}
    ELSE {[app |-> after_run(close_popup(toggle_popup(s.app, "RunTests")), r, k,
                             "tests_completed"),
           runs |-> Append(s.runs, [results |-> r.results,
                                    release |-> global_release_of(cfg),
                                    at |-> k])] :
             s \in AfterReruns(cfg, k - 1), r \in OkRuns(cfg)}

InitNav ==
    /\ run_config \in UiConfigs
    /\ \E k \in 0..(MaxHistory - 1) : \E s \in AfterReruns(run_config, k) :
          /\ app = s.app
          /\ runs = s.runs
          /\ calls = k
          /\ now = k
    /\ ret = Some(Ok(app.history[1].test_results))
    /\ results = app.history[1].test_results
    /\ pc = "returned"
    /\ cmd_idx = 1
    /\ test_idx = Len(run_config.tests) + 1
    /\ child = "none"
    /\ child_exit_at = -1
    /\ child_output = << >>
    /\ elapsed = 0
    /\ started = << >>
    /\ child_stdin = NoStdin
    /\ ui_running = TRUE
    /\ fn_args = None
    /\ fn_result = None

\* the keys that start no run
NextNav ==
    \/ KeyHelp \/ KeyDown \/ KeyUp \/ KeyRight \/ KeyLeft \/ KeyHistory
    \/ EnterHistory \/ KeyEsc \/ UpdateResultPopup

SpecNav == InitNav /\ [][NextNav]_vars

\* C19: next_history moves the selection to (selected_history + 1) modulo
\* the number of entries and previous_history to (selected_history - 1)
\* modulo it, wrapping at both ends; previous_history after next_history
\* gives back the selection next_history started from.
C19_CircularNavigation ==
    [][/\ HistoryDown =>
             /\ app'.selected_history = (app.selected_history + 1) % Len(app.history)
             /\ previous_history(app').selected_history = app.selected_history
       /\ HistoryUp =>
             app'.selected_history =
                 (app.selected_history + Len(app.history) - 1) % Len(app.history)]_vars

\* with three entries, the selection went from the second to the first: the
\* first is selected and displayed on the history tab
C19_Witness ==
    /\ Len(app.history) = 3
    /\ app.tab_index = 4
    /\ app.selected_history = 0
    /\ app.test_results = app.history[1].test_results
    /\ app.test_results # app.history[3].test_results

(***************************************************************************)
(* process_template applied to arbitrary templates                         *)
(***************************************************************************)
\* the markers process_template looks for, and plain text around them
Markers == {release_template, build_release_template, build_else, release_end}
\* a start marker without its first brace: text that becomes a marker when
\* what stands between a "{" and it is taken away
release_template_tail == Tail(release_template)
TextPieces == {<<"a">>, <<"{">>, release_template_tail}
TemplatePieces == Markers \cup TextPieces

RECURSIVE Concat(_)
\* the string made of the pieces in order
Concat(pieces) ==
    IF pieces = << >> THEN << >> ELSE Head(pieces) \o Concat(Tail(pieces))

\* the pieces are the tokens of the string they make: a start marker is one
\* piece, never a "{" followed by the rest of the marker
Tokenised(pieces) ==
    \A k \in 1..(Len(pieces) - 1) :
        ~(pieces[k] = <<"{">> /\ pieces[k + 1] = release_template_tail)

InitTemplate ==
    /\ NoRun
    /\ \E n \in 0..MaxPieces : \E p \in [1..n -> TemplatePieces] : \E b \in BOOLEAN :
          /\ Tokenised(p)
          /\ fn_args = [pieces |-> p, is_release |-> b]
    /\ fn_result = None

\* one call of process_template (test.rs:94)
ProcessTemplate ==
    /\ fn_result = None
    /\ fn_result' = Some(process_template(Concat(fn_args.pieces), fn_args.is_release))
    /\ UNCHANGED <<fn_args, ui_vars, run_vars>>

NextTemplate == ProcessTemplate

SpecTemplate == InitTemplate /\ [][NextTemplate]_vars

\* C20: for a template pre ++ "{{#if release}}" ++ X ++ "{{/if}}" ++ post
\* whose pre, X and post hold no marker, process_template gives
\* pre ++ X ++ post when the flag is true and pre ++ post when it is false.
C20_SingleBranch ==
    IsSome(fn_result) =>
        \A i \in 1..Len(fn_args.pieces) : \A j \in (i + 1)..Len(fn_args.pieces) :
            LET pre == SubSeq(fn_args.pieces, 1, i - 1)
                x == SubSeq(fn_args.pieces, i + 1, j - 1)
                post == SubSeq(fn_args.pieces, j + 1, Len(fn_args.pieces))
            IN (/\ fn_args.pieces[i] = release_template
                /\ fn_args.pieces[j] = release_end
                /\ \A k \in 1..Len(fn_args.pieces) :
                      k \notin {i, j} => fn_args.pieces[k] \in TextPieces)
               => Unwrap(fn_result) =
                     IF fn_args.is_release
                     THEN Concat(pre) \o Concat(x) \o Concat(post)
                     ELSE Concat(pre) \o Concat(post)

\* "a{{#if release}}{{{/if}}a" was processed with the flag false and gave "aa"
C20_Witness ==
    /\ fn_args = [pieces |-> << <<"a">>, release_template, <<"{">>, release_end, <<"a">> >>,
                  is_release |-> FALSE]
    /\ fn_result = Some(<<"a", "a">>)

\* C21: for a template pre ++ "{{#if build.release}}" ++ A ++ "{{else}}" ++ B
\* ++ "{{/if}}" ++ post whose pre, A, B and post hold no marker,
\* process_template gives pre ++ A ++ post when the flag is true and
\* pre ++ B ++ post when it is false: one branch, never both, never neither.
C21_IfElse ==
    IsSome(fn_result) =>
        \A i \in 1..Len(fn_args.pieces) : \A e \in (i + 1)..Len(fn_args.pieces) :
        \A j \in (e + 1)..Len(fn_args.pieces) :
            LET pre == SubSeq(fn_args.pieces, 1, i - 1)
                a == SubSeq(fn_args.pieces, i + 1, e - 1)
                b == SubSeq(fn_args.pieces, e + 1, j - 1)
                post == SubSeq(fn_args.pieces, j + 1, Len(fn_args.pieces))
            IN (/\ fn_args.pieces[i] = build_release_template
                /\ fn_args.pieces[e] = build_else
                /\ fn_args.pieces[j] = release_end
                /\ \A k \in 1..Len(fn_args.pieces) :
                      k \notin {i, e, j} => fn_args.pieces[k] \in TextPieces)
               => Unwrap(fn_result) =
                     Concat(pre) \o (IF fn_args.is_release THEN Concat(a) ELSE Concat(b))
                                 \o Concat(post)

\* "{{#if build.release}}a{{else}}{{{/if}}a" was processed with the flag false
\* and gave "{a"
C21_Witness ==
    /\ fn_args = [pieces |-> << build_release_template, <<"a">>, build_else, <<"{">>,
                                release_end, <<"a">> >>,
                  is_release |-> FALSE]
    /\ fn_result = Some(<<"{", "a">>)

\* the tokens opening a conditional region
StartMarkers == {release_template, build_release_template}

\* the positions after i holding the given marker
After(pieces, i, marker) == {k \in (i + 1)..Len(pieces) : pieces[k] = marker}

\* the smallest element of a set of positions, 0 for the empty set
First(positions) ==
    IF positions = {} THEN 0 ELSE CHOOSE k \in positions : \A m \in positions : k <= m

\* the position of the end token closing the region opened at i, 0 if there
\* is none: the first end token after i, for the if/else form the first end
\* token after the first else token after i
MatchingEnd(pieces, i) ==
    IF pieces[i] = release_template
    THEN First(After(pieces, i, release_end))
    ELSE LET e == First(After(pieces, i, build_else))
         IN IF e = 0 THEN 0 ELSE First(After(pieces, e, release_end))

\* no region is opened inside another one: a start token that has a matching
\* end token has no start token between itself and that end token
NoNesting(pieces) ==
    \A i \in 1..Len(pieces) : \A j \in (i + 1)..Len(pieces) :
        (pieces[i] \in StartMarkers /\ pieces[j] \in StartMarkers) =>
            (MatchingEnd(pieces, i) = 0 \/ MatchingEnd(pieces, i) < j)

\* the template uses at most one of the two conditional forms
OneForm(pieces) ==
    ~(/\ \E i \in 1..Len(pieces) : pieces[i] = release_template
      /\ \E i \in 1..Len(pieces) : pieces[i] = build_release_template)

\* process_template applied to its own result gives that result again
Idempotent ==
    process_template(Unwrap(fn_result), fn_args.is_release) = Unwrap(fn_result)

\* C22 as stated: process_template is idempotent for every template without
\* nested markup and either flag value.
C22_IdempotentNoNesting ==
    (IsSome(fn_result) /\ NoNesting(fn_args.pieces)) => Idempotent

\* the text between the markers holds no brace
BraceFree(pieces) ==
    \A k \in 1..Len(pieces) :
        pieces[k] \in TextPieces =>
            \A c \in 1..Len(pieces[k]) : pieces[k][c] \notin {"{", "}"}

\* C22: process_template is idempotent, for either flag value, for every
\* template without nested markup that uses at most one of the two forms and
\* whose text outside the markers holds no brace.
C22_IdempotentOneForm ==
    (/\ IsSome(fn_result)
     /\ NoNesting(fn_args.pieces)
     /\ OneForm(fn_args.pieces)
     /\ BraceFree(fn_args.pieces))
        => Idempotent

\* C22 without the condition on braces: the text around a region that is
\* taken away can join into a start marker, which a second pass resolves
C22_IdempotentOneFormAnyText ==
    (IsSome(fn_result) /\ NoNesting(fn_args.pieces) /\ OneForm(fn_args.pieces))
        => Idempotent

\* "{{#if release}}a{{/if}}{{#if release}}a{{/if}}" was processed with the
\* flag true and gave "aa", on which process_template changes nothing
C22_Witness ==
    /\ fn_args = [pieces |-> << release_template, <<"a">>, release_end,
                                release_template, <<"a">>, release_end >>,
                  is_release |-> TRUE]
    /\ fn_result = Some(<<"a", "a">>)
    /\ Idempotent

\* the form process_template works on: the single-branch form if its start
\* token occurs, else the if/else form if its start token occurs
ProcessedStart(pieces) ==
    IF \E i \in 1..Len(pieces) : pieces[i] = release_template THEN release_template
    ELSE build_release_template

\* position i holds a start token of the processed form that has no matching
\* end and does not lie inside the region of an earlier start token
Unmatched(pieces, i) ==
    /\ pieces[i] = ProcessedStart(pieces)
    /\ MatchingEnd(pieces, i) = 0
    /\ \A h \in 1..(i - 1) :
          pieces[h] = pieces[i] => MatchingEnd(pieces, h) \in 1..(i - 1)

\* C23: process_template always returns a string; where a start token has no
\* matching end token the result ends with the template from that start token
\* on, copied as it is, and if it is the first start token the text before it
\* is kept too, so the whole template comes back; a template without a start
\* token comes back unchanged.
C23_UnmatchedCopied ==
    IsSome(fn_result) =>
        LET pieces == fn_args.pieces
            out == Unwrap(fn_result)
        IN /\ \A i \in 1..Len(pieces) :
                 Unmatched(pieces, i) =>
                     LET rest == Concat(SubSeq(pieces, i, Len(pieces)))
                     IN /\ Len(out) >= Len(rest)
                        /\ SubSeq(out, Len(out) - Len(rest) + 1, Len(out)) = rest
                        /\ (\A h \in 1..(i - 1) : pieces[h] # pieces[i]) =>
                              out = Concat(pieces)
           /\ (\A i \in 1..Len(pieces) : pieces[i] \notin StartMarkers) =>
                 out = Concat(pieces)

\* "{{#if release}}a{{/if}}{{{#if release}}a" was processed with the flag
\* true: the first region was resolved and the open one copied
C23_Witness ==
    /\ fn_args = [pieces |-> << release_template, <<"a">>, release_end, <<"{">>,
                                release_template, <<"a">> >>,
                  is_release |-> TRUE]
    /\ fn_result = Some(<<"a", "{">> \o release_template \o <<"a">>)

(***************************************************************************)
(* Non-interactive mode: load_config and run_cli (test.rs:54-91, cli.rs)   *)
(***************************************************************************)
\* char::to_lowercase on the letters that occur in the file names below
LowerChar(c) ==
    CASE c = "Y" -> "y" [] c = "A" -> "a" [] c = "M" -> "m" [] c = "L" -> "l"
      [] c = "T" -> "t" [] c = "O" -> "o" [] OTHER -> c

\* str::to_lowercase
to_lowercase(s) == [k \in 1..Len(s) |-> LowerChar(s[k])]

\* Path::extension of a file name: what follows the last dot, unless the
\* name has no dot or its only dot is its first character
extension(name) ==
    LET dots == {k \in 2..Len(name) : name[k] = "."}
    IN IF dots = {} THEN None
       ELSE Some(Slice(name, (CHOOSE k \in dots : \A m \in dots : m <= k) + 1))

\* file names the configuration is looked up under
ConfigNames ==
    { <<"c",".","y","a","m","l">>, <<"c",".","Y","M","L">>, <<"c",".","y","m","l">>,
      <<"c",".","t","o","m","l">>, <<"c",".","T","o","m","l">>,
      <<"c",".","j","s","o","n">>, <<"c">>, <<"c",".">>, <<".","y","a","m","l">>,
      <<"c",".","y","a","m","l",".","b","a","k">> }

\* what is at the path: nothing, something that cannot be read as a string
\* (a directory, bytes that are not UTF-8), or a text given by what
\* serde_yaml and toml make of it (None for a parse error)
Document(yaml, toml) == [state |-> "text", yaml |-> yaml, toml |-> toml]
ConfigFiles ==
    { [state |-> "missing", yaml |-> None, toml |-> None],
      [state |-> "unreadable", yaml |-> None, toml |-> None],
      Document(Some(ConfigOf(<<t_echo, t_cat>>, None)), None),
      Document(None, Some(ConfigOf(<<t_echo>>, Some(BuildOf(FALSE, None))))),
      Document(Some(ConfigOf(<< >>, None)), Some(ConfigOf(<<t_cat>>, None))),
      Document(None, None) }

\* Result<TestConfig>: subject is the text the error message names
Loaded(config) == [ok |-> TRUE, config |-> Some(config), error |-> "none", subject |-> << >>]
LoadError(kind, subject) == [ok |-> FALSE, config |-> None, error |-> kind, subject |-> subject]

\* a parser finding the text is no configuration
load_config_any_extension(name, file) ==
    IF file.state = "missing" THEN LoadError("not_found", name)
    ELSE IF file.state = "unreadable" THEN LoadError("read_failed", name)
    ELSE IF IsSome(file.yaml) THEN Loaded(Unwrap(file.yaml))
    ELSE IF IsSome(file.toml) THEN Loaded(Unwrap(file.toml))
    ELSE LoadError("unsupported_format", << >>)

\* test.rs:54-91
load_config(name, file) ==
    IF file.state = "missing" THEN LoadError("not_found", name)
    ELSE IF file.state = "unreadable" THEN LoadError("read_failed", name)
    ELSE LET ext == IF IsSome(extension(name)) THEN to_lowercase(Unwrap(extension(name)))
                    ELSE << >>
         IN IF ext \in { <<"y","a","m","l">>, <<"y","m","l">> }
            THEN IF IsSome(file.yaml) THEN Loaded(Unwrap(file.yaml))
                 ELSE LoadError("yaml_parse_error", << >>)
            ELSE IF ext = <<"t","o","m","l">>
                 THEN IF IsSome(file.toml) THEN Loaded(Unwrap(file.toml))
                      ELSE LoadError("toml_parse_error", << >>)
                 ELSE LoadError("unsupported_format", ext)

\* Result<()> of run_cli
CliOk == [ok |-> TRUE, error |-> "none"]
CliErr(kind) == [ok |-> FALSE, error |-> kind]

\* run_cli returning Ok whenever the run itself went through
run_cli_ignores_failures(r) ==
    IF ~r.ok THEN CliErr(r.error) ELSE CliOk

\* cli.rs:19-29, on the value r returned by run_tests
run_cli(r) ==
    IF ~r.ok THEN CliErr(r.error)
    ELSE IF \A k \in 1..Len(r.results) : r.results[k].success
         THEN CliOk
         ELSE CliErr("some_tests_failed")

InitCli ==
    /\ NoRun
    /\ fn_args \in [name : ConfigNames, file : ConfigFiles]
    /\ fn_result = None

\* cli.rs:10-11
CliLoadConfig ==
    /\ fn_result = None
    /\ fn_result' = Some([loaded |-> load_config(fn_args.name, fn_args.file),
                          run |-> None, returned |-> None])
    /\ UNCHANGED <<fn_args, ui_vars, run_vars>>

\* cli.rs:11 (the ? on a load error) and cli.rs:19-29
CliRunTests ==
    /\ IsSome(fn_result)
    /\ Unwrap(fn_result).returned = None
    /\ LET loaded == Unwrap(fn_result).loaded
       IN IF ~loaded.ok
          THEN fn_result' = Some([loaded |-> loaded, run |-> None,
                                  returned |-> Some(CliErr("load_failed"))])
          ELSE \E env \in RunEnvs(Unwrap(loaded.config)) :
                  LET r == run_tests(Unwrap(loaded.config), env)
                  IN fn_result' = Some([loaded |-> loaded, run |-> Some(r),
                                        returned |-> Some(run_cli(r))])
    /\ UNCHANGED <<fn_args, ui_vars, run_vars>>

NextCli == CliLoadConfig \/ CliRunTests

SpecCli == InitCli /\ [][NextCli]_vars

\* C24: run_cli returns Ok exactly when run_tests returned results and every
\* one of them has success = true (the empty list included); it returns an
\* error when a result has success = false, when the run itself failed and
\* when the configuration could not be loaded.
C24_CliExit ==
    (IsSome(fn_result) /\ IsSome(Unwrap(fn_result).returned)) =>
        LET run == Unwrap(fn_result).run
            returned == Unwrap(Unwrap(fn_result).returned)
        IN /\ returned.ok <=>
                 /\ IsSome(run)
                 /\ run[1].ok
                 /\ \A k \in 1..Len(run[1].results) : run[1].results[k].success
           /\ (IsSome(run) /\ run[1].ok /\ Len(run[1].results) = 0) => returned.ok
           /\ (IsSome(run) /\ ~run[1].ok) => ~returned.ok
           /\ (IsSome(run) /\ \E k \in 1..Len(run[1].results) : ~run[1].results[k].success)
                 => ~returned.ok

\* the run returned two results, only the second with a mismatch, and
\* run_cli returned the error
C24_Witness ==
    /\ IsSome(fn_result)
    /\ IsSome(Unwrap(fn_result).run)
    /\ Unwrap(Unwrap(fn_result).run).ok
    /\ Len(Unwrap(Unwrap(fn_result).run).results) = 2
    /\ Unwrap(Unwrap(fn_result).run).results[1].success
    /\ ~Unwrap(Unwrap(fn_result).run).results[2].success
    /\ Unwrap(fn_result).returned = Some(CliErr("some_tests_failed"))

\* the parser each of the file names stands for
ParserFor(name) ==
    IF name \in { <<"c",".","y","a","m","l">>, <<"c",".","Y","M","L">>, <<"c",".","y","m","l">> }
    THEN "yaml"
    ELSE IF name \in { <<"c",".","t","o","m","l">>, <<"c",".","T","o","m","l">> }
         THEN "toml"
         ELSE "none"

\* the value of load_config is what the parser chosen by the file name makes
\* of the text, or the unsupported-format error if there is no such parser
ParsedByExtension(name, file, loaded) ==
    CASE ParserFor(name) = "yaml" ->
            IF IsSome(file.yaml) THEN loaded = Loaded(Unwrap(file.yaml))
            ELSE ~loaded.ok /\ loaded.error = "yaml_parse_error"
      [] ParserFor(name) = "toml" ->
            IF IsSome(file.toml) THEN loaded = Loaded(Unwrap(file.toml))
            ELSE ~loaded.ok /\ loaded.error = "toml_parse_error"
      [] OTHER -> ~loaded.ok /\ loaded.error = "unsupported_format"

NotFoundNamed(name, loaded) ==
    ~loaded.ok /\ loaded.error = "not_found" /\ loaded.subject = name

\* C25 as stated: load_config fails with a not-found error naming the path
\* whenever nothing exists at the path; for whatever exists there it picks the
\* parser by the extension compared without regard to case, and fails with
\* the unsupported-format error for any other or missing extension.
C25_LoadByExtensionIfExists ==
    IsSome(fn_result) =>
        LET loaded == Unwrap(fn_result).loaded
        IN /\ fn_args.file.state = "missing" => NotFoundNamed(fn_args.name, loaded)
           /\ fn_args.file.state # "missing" =>
                 ParsedByExtension(fn_args.name, fn_args.file, loaded)

\* C25: load_config fails with a not-found error naming the path whenever
\* nothing exists at the path; for an existing file whose content can be read
\* as text it picks the parser by the extension compared without regard to
\* case (yaml, yml: YAML; toml: TOML) and fails with the unsupported-format
\* error for any other or missing extension, whatever the text is.
C25_LoadByExtensionIfReadable ==
    IsSome(fn_result) =>
        LET loaded == Unwrap(fn_result).loaded
        IN /\ fn_args.file.state = "missing" => NotFoundNamed(fn_args.name, loaded)
           /\ fn_args.file.state = "text" =>
                 ParsedByExtension(fn_args.name, fn_args.file, loaded)

\* "c.YML" holding a text that both parsers accept was loaded as YAML
C25_Witness ==
    /\ fn_args.name = <<"c",".","Y","M","L">>
    /\ IsSome(fn_args.file.yaml)
    /\ IsSome(fn_args.file.toml)
    /\ IsSome(fn_result)
    /\ Unwrap(fn_result).loaded = Loaded(Unwrap(fn_args.file.yaml))
    /\ Unwrap(fn_result).loaded # Loaded(Unwrap(fn_args.file.toml))

(***************************************************************************)
(* Build mode popups (Spec)                                                *)
(***************************************************************************)
\* C26: confirming the build-mode popup turns the release flag of the global
\* build section, which the popup shows as the current mode and the next run
\* uses, into its opposite.
C26_ToggleFlipsBuildMode ==
    [][(EnterBuildToggle /\ IsSome(app.config.build)) =>
          /\ IsSome(app'.config.build)
          /\ Unwrap(app'.config.build).release = ~Unwrap(app.config.build).release]_vars

\* C27: confirming the run-release popup runs the tests in release mode: in
\* the results of that run every test case without a build override of its
\* own has the release flag true, with or without a global build section.
C27_RunReleaseIsRelease ==
    [][(EnterRunRelease /\ Len(runs') > Len(runs)) =>
          \A k \in 1..Len(runs'[Len(runs')].results) :
              app.config.tests[k].build = None =>
                  runs'[Len(runs')].results[k].is_release]_vars

(***************************************************************************)
(* One process at a time, the timeout wait and stdin (SpecRun)             *)
(***************************************************************************)
\* C28: whenever the engine starts a process, build command or test, no
\* process it started earlier is alive; the process of a test case is spawned
\* in declared order, after the process of the test case before it has
\* exited and its result has been pushed.  So at most one process is alive.
C28_OneProcessAtATime ==
    [][Len(started') > Len(started) =>
          LET p == started'[Len(started')]
          IN /\ Len(started') = Len(started) + 1
             /\ child = "none"
             /\ p.kind = "pre_build" => (results = << >> /\ test_idx = 0)
             /\ p.kind \in {"test_build", "test"} =>
                   /\ p.test = Len(results) + 1
                   /\ \A n \in 1..Len(started) :
                         started[n].kind = "test" =>
                             /\ started[n].test < p.test
                             /\ results[started[n].test].name =
                                   run_config.tests[started[n].test].name
             /\ p.kind # "test" => child' = "none"]_vars

\* the process of the second test case is running, the first having exited
\* and been collected
C28_Witness ==
    /\ child = "running"
    /\ Len(results) = 1
    /\ Len(started) >= 2
    /\ Last(started).kind = "test"
    /\ Last(started).test = 2
    /\ \E n \in 1..(Len(started) - 1) : started[n].kind = "test" /\ started[n].test = 1

\* the timeout of the test case under way, in seconds: the configured one,
\* 30 if none is configured
ConfiguredTimeoutSecs ==
    IF cur_test.timeout_secs = None THEN 30 ELSE cur_test.timeout_secs[1]

\* C29: the wait has never lasted more than one poll interval (100 ms) beyond
\* the timeout, and 'timed out' is only reported once the whole timeout has
\* passed since the wait started; without timeout_secs the timeout is 30 s.
C29_TimeoutWaitBound ==
    /\ pc \in {"wait_timeout", "poll", "sleeping", "collect", "timed_out"} =>
          elapsed * 100 <= ConfiguredTimeoutSecs * 1000 + 100
    /\ (pc = "timed_out" \/ (Returned /\ ret_value.error = "timed_out")) =>
          /\ elapsed * 100 >= ConfiguredTimeoutSecs * 1000
          /\ elapsed * 100 <= ConfiguredTimeoutSecs * 1000 + 100

\* a test case without timeout_secs was reported as timed out after 30 s
C29_Witness ==
    /\ Returned
    /\ ret_value.error = "timed_out"
    /\ cur_test.timeout_secs = None
    /\ elapsed * 100 = 30000

\* C30: while the engine waits for a test with an input payload, the whole
\* payload has been written to the child's stdin and the write end is closed;
\* the write follows the spawn at once, before the first poll; for a test
\* without input no pipe was requested and nothing was written.
C30_StdinWrittenAndClosed ==
    /\ pc \in {"wait_timeout", "poll", "sleeping", "collect", "timed_out"} =>
          IF cur_test.input # None
          THEN child_stdin = Stdin("closed", cur_test.input[1])
          ELSE child_stdin = Stdin("not_requested", << >>)
    /\ pc = "write_stdin" =>
          /\ cur_test.input # None
          /\ child_stdin = Stdin("open", << >>)
          /\ elapsed = 0
          /\ Last(started).kind = "test" /\ Last(started).test = test_idx

\* the engine is polling a child that was given "hi" on a stdin now closed
C30_Witness ==
    /\ pc = "sleeping"
    /\ child = "running"
    /\ cur_test.input = Some(s_hi)
    /\ child_stdin = Stdin("closed", s_hi)

(***************************************************************************)
(* Templates holding both conditional forms (SpecTemplate)                 *)
(***************************************************************************)
\* the positions of the markers of a template, in increasing order
MarkerPositions(pieces) ==
    LET P == {k \in 1..Len(pieces) : pieces[k] \in Markers}
        RECURSIVE Sorted(_)
        Sorted(S) == IF S = {} THEN << >>
                     ELSE LET k == First(S) IN <<k>> \o Sorted(S \ {k})
    IN Sorted(P)

\* the part of a template from piece i to piece j, as a string
Span(pieces, i, j) == Concat(SubSeq(pieces, i, j))

\* C31: in a template made of text, one complete region of each form and no
\* nesting, the region that comes first from the left is resolved by the
\* flag and the region of the other form is left in the result as it is.
C31_LeftmostFormProcessed ==
    IsSome(fn_result) =>
        LET pieces == fn_args.pieces
            n == Len(pieces)
            m == MarkerPositions(pieces)
            kinds == [k \in 1..Len(m) |-> pieces[m[k]]]
        IN /\ kinds = <<release_template, release_end,
                        build_release_template, build_else, release_end>> =>
                 Unwrap(fn_result) =
                     Span(pieces, 1, m[1] - 1)
                     \o (IF fn_args.is_release THEN Span(pieces, m[1] + 1, m[2] - 1)
                         ELSE << >>)
                     \o Span(pieces, m[2] + 1, n)
           /\ kinds = <<build_release_template, build_else, release_end,
                        release_template, release_end>> =>
                 Unwrap(fn_result) =
                     Span(pieces, 1, m[1] - 1)
                     \o (IF fn_args.is_release THEN Span(pieces, m[1] + 1, m[2] - 1)
                         ELSE Span(pieces, m[2] + 1, m[3] - 1))
                     \o Span(pieces, m[3] + 1, n)

(***************************************************************************)
(* The diff of a failed comparison (test.rs:294-309)                       *)
(***************************************************************************)
\* test.rs:294-309 on the expected output and the captured stdout
Diff ==
    /\ fn_result = None
    /\ fn_result' = Some(diff_of(fn_args, fn_args.actual_output))
    /\ UNCHANGED <<fn_args, ui_vars, run_vars>>

NextDiff == Diff

SpecDiff == InitCompare /\ [][NextDiff]_vars

\* the contents of the diff lines carrying one of the tags, in order, joined
Side(diff, tags) ==
    Concat([k \in 1..Len(SelectSeq(diff, LAMBDA change : change.tag \in tags)) |->
               SelectSeq(diff, LAMBDA change : change.tag \in tags)[k].content])

\* s is one line: not empty, with no newline except as its last character
IsLine(s) ==
    /\ s # << >>
    /\ \A k \in 1..(Len(s) - 1) : s[k] # "\n"

\* C32: the diff of a failed comparison is a complete edit script of lines:
\* every entry is one line, the Delete and Equal entries in order make up the
\* expected output and the Insert and Equal entries in order make up the
\* actual output; a one-line expected output against a different one-line
\* actual output gives a Delete entry for the one and an Insert entry for the
\* other.
C32_CompleteEditScript ==
    (IsSome(fn_result) /\ IsSome(Unwrap(fn_result))) =>
        LET diff == Unwrap(Unwrap(fn_result))
            e == fn_args.expected_output
            a == fn_args.actual_output
        IN /\ \A k \in 1..Len(diff) :
                 /\ diff[k].tag \in {"Delete", "Insert", "Equal"}
                 /\ IsLine(diff[k].content)
           /\ Side(diff, {"Delete", "Equal"}) = e
           /\ Side(diff, {"Insert", "Equal"}) = a
           /\ (IsLine(e) /\ IsLine(a)) =>
                 /\ \E k \in 1..Len(diff) : diff[k] = [tag |-> "Delete", content |-> e]
                 /\ \E k \in 1..Len(diff) : diff[k] = [tag |-> "Insert", content |-> a]

\* "a\n \n" was expected and "a\na\n" printed: the diff keeps the line "a\n"
\* as Equal, deletes " \n" and inserts "a\n"
C32_Witness ==
    /\ fn_args = [expected_output |-> <<"a", "\n", " ", "\n">>,
                  actual_output |-> <<"a", "\n", "a", "\n">>]
    /\ fn_result = Some(Some(<<[tag |-> "Equal", content |-> <<"a", "\n">>],
                               [tag |-> "Delete", content |-> <<" ", "\n">>],
                               [tag |-> "Insert", content |-> <<"a", "\n">>]>>))

(***************************************************************************)
(* The UI as a whole (Spec)                                                *)
(***************************************************************************)
\* C33: the results of every successful re-run so far are the displayed
\* result set or the result set of some history entry.
C33_NoResultSetLost ==
    \A k \in 1..Len(runs) :
        \/ app.test_results = runs[k].results
        \/ \E h \in 1..Len(app.history) :
              app.history[h].test_results = runs[k].results

\* C34: whenever the configuration has a global build section, the release
\* flag of the application equals the release flag of that section.
C34_ReleaseModeIsBuildRelease ==
    IsSome(app.config.build) =>
        app.release_mode = Unwrap(app.config.build).release

\* C35: the selection indices stay in range: selected_history is the index
\* of a history entry, tab_index is one of the five tabs, and selected_test
\* is the index of a displayed result whenever there is one.
C35_SelectionInRange ==
    /\ app.selected_history \in 0..(Len(app.history) - 1)
    /\ app.tab_index \in 0..4
    /\ app.test_results # << >> => app.selected_test \in 0..(Len(app.test_results) - 1)

\* the last result of two is selected and, after a re-run, the history entry
\* selected on the history tab is the last one
C35_Witness ==
    /\ Len(app.test_results) = 2
    /\ app.selected_test = 1
    /\ Len(app.history) = 2
    /\ app.selected_history = 1
    /\ app.tab_index = 4

\* what Esc on a confirmation popup must leave alone
KeptByEsc(a) ==
    <<a.config, a.history, a.test_results, a.selected_test, a.selected_history,
      a.tab_index, a.release_mode>>

\* C36: run_tests is called only by the Enter step taken while a RunTests or
\* RunRelease confirmation is showing, one call for one confirmation; Esc on
\* a confirmation closes it and changes neither the configuration nor the
\* history, the displayed results or the selection, and starts no run.
C36_RunOnlyByConfirmation ==
    [][/\ calls' # calls =>
             /\ EnterRunTests \/ EnterRunRelease
             /\ app.show_popup
             /\ app.popup_type \in {"RunTests", "RunRelease"}
             /\ calls' = calls + 1
       /\ Len(runs') # Len(runs) => calls' # calls
       /\ (KeyEsc /\ app.show_popup) =>
             /\ ~app'.show_popup
             /\ KeptByEsc(app') = KeptByEsc(app)
             /\ calls' = calls /\ runs' = runs]_vars

\* a run was started from the RunRelease confirmation, which is closed now
C36_Witness ==
    /\ calls = 1
    /\ ~app.show_popup
    /\ app.result_popup_message.text = "release_tests_completed"
    /\ Len(app.history) = 2

\* a key other than Enter and Esc is pressed
OtherKey ==
    \/ KeyQuit \/ KeyHelp \/ KeyDown \/ KeyUp \/ KeyRight \/ KeyLeft
    \/ KeyRunTests \/ KeyBuildToggle \/ KeyRunRelease \/ KeyHistory

\* C37: the help overlay and a confirmation popup are never showing together.
C37_HelpAndPopupExclusive == ~(app.show_help /\ app.show_popup)

\* C37: while a confirmation popup is showing, a key other than Enter and
\* Esc changes nothing: it moves no selection, switches no tab, toggles no
\* help, opens no other popup and does not quit.
C37_PopupIsModal ==
    [][(OtherKey /\ app.show_popup) => (app' = app /\ ui_running' = ui_running)]_vars

\* C37, both parts: no state shows help and popup together, and no step
\* from a state with a popup is a key other than Enter and Esc that changes
\* the application.
C37_ModalPopup == [](C37_HelpAndPopupExclusive) /\ C37_PopupIsModal

\* a confirmation is showing on the commands tab with the second test
\* selected, over a notification that is still visible
C37_Witness ==
    /\ app.show_popup /\ app.popup_type = "RunTests"
    /\ ~app.show_help
    /\ app.tab_index = 3
    /\ app.selected_test = 1
    /\ app.result_popup_visible

\* C38: a confirmed re-run in which run_tests returns an error leaves the
\* history, the displayed results, the selection and the configuration as
\* they were before the confirmation; only the notification is set.
C38_FailedRunChangesNothing ==
    [][(calls' # calls /\ runs' = runs) =>
          /\ app'.result_popup_visible
          /\ app'.result_popup_message.text = "error"
          /\ app'.history = app.history
          /\ app'.test_results = app.test_results
          /\ app'.selected_test = app.selected_test
          /\ app'.selected_history = app.selected_history
          /\ app'.tab_index = app.tab_index
          /\ app'.config = app.config]_vars

(***************************************************************************)
(* Termination of a run and the child's pipes (SpecRunLive, SpecRun)       *)
(***************************************************************************)
\* C39: every run terminates: run_tests returns, with the results or with an
\* error, whatever the child does, and every test case it starts on comes to
\* its result or to the error.
C39_EveryRunTerminates ==
    /\ <>Returned
    /\ \A k \in 1..2 :
          (test_idx = k /\ ~Returned) ~> (Len(results) >= k \/ Returned)

\* run_tests returns unless it is held in the write to the child's stdin
C39_TerminatesUnlessWriteBlocks == <>(Returned \/ [](pc = "write_blocked"))

\* the child is held in a write to its stdout pipe, which is full
StdoutFull == child \in {"running", "killed"} /\ child_output # << >>

\* C40: a child that has more output than the pipe holds, and would exit as
\* soon as the pipe is read, is never reported as timed out.
C40_LargeOutputNotTimedOut ==
    StdoutFull => (pc # "timed_out" /\ ~(Returned /\ ret_value.error = "timed_out"))

====
